---- MODULE Spec2Model ----
(***************************************************************************)
(* Model of the deferred-configuration layer of deeplay:                   *)
(*   - LayerList / Sequential (src/deeplay/list.py): the ordered container *)
(*     of deferred modules, with its pending tuple (_args), its contents   *)
(*     (the ModuleList it extends) and its addressed configure;            *)
(*   - Conv2dBlock and its registered styles                               *)
(*     (src/deeplay/blocks/conv/conv2d.py).                                *)
(* Python sequences are 0-based; TLA+ sequences are 1-based.  Operators    *)
(* that take a Python index say so.                                        *)
(***************************************************************************)
EXTENDS Integers, Sequences, FiniteSets, TLC

VARIABLES
    ll_kind,      \* class of the container: "LayerList" or "Sequential"
    ll_args,      \* self._args, the pending tuple
    ll_modules,   \* the contents (what iteration and indexing see)
    ll_built,     \* self._has_built
    ll_cfg,       \* per layer: the last configure call it received
    ll_last,      \* record of the last operation: its inputs, the state before it, its result
    cb,           \* a Conv2dBlock: channels, stride, order, components, sub-blocks
    cb_ops,       \* number of operations applied to cb
    cb_last,      \* record of the last operation on cb: its inputs, the block before it, its outcome
    mlp,          \* a MultiLayerPerceptron class and its configuration store
    mlp_last,     \* record of the last operation on mlp and its result
    up,           \* layer descriptors as objects, and blocks that refer to them
    up_last,      \* record of the last upsampled call
    app,          \* an Application: its children, batch-index key and batch size
    app_last      \* record of the last operation on app and its result

llvars == <<ll_kind, ll_args, ll_modules, ll_built, ll_cfg, ll_last>>

cbvars == <<cb, cb_ops, cb_last>>

mlpvars == <<mlp, mlp_last>>

upvars == <<up, up_last>>

appvars == <<app, app_last>>

vars == <<ll_kind, ll_args, ll_modules, ll_built, ll_cfg, ll_last, cb, cb_ops, cb_last,
          mlp, mlp_last, up, up_last, app, app_last>>

\* value of the variables of a part of the program a specification does not exercise
Unused == [op |-> "unused"]

ConvUnused == cb = Unused /\ cb_ops = 0 /\ cb_last = Unused

MlpUnused == mlp = Unused /\ mlp_last = Unused

UpUnused == up = Unused /\ up_last = Unused

AppUnused == app = Unused /\ app_last = Unused

----------------------------------------------------------------------------
(* Bounds and universes *)

\* longest pending tuple / contents explored
MaxLen == 3

\* longest list of paths given to configure
MaxPath == 2

\* the layers that can be put in a container (the same layer may occur twice)
Modules == {"m1", "m2"}

Kinds == {"LayerList", "Sequential"}

\* integer indices tried: every valid one and one out of range on each side
Ints == (0 - (MaxLen + 1))..MaxLen

----------------------------------------------------------------------------
(* Python sequence helpers *)

\* s without its k-th element (k is 1-based)
RemoveAt(s, k) == SubSeq(s, 1, k - 1) \o SubSeq(s, k + 1, Len(s))

\* range(start, stop, step) as a sequence, step # 0
PyRange(start, stop, step) ==
    LET cnt == IF step > 0
               THEN (IF stop > start THEN (stop - start + step - 1) \div step ELSE 0)
               ELSE (IF start > stop THEN (start - stop - step - 1) \div (0 - step) ELSE 0)
    IN [k \in 1..cnt |-> start + (k - 1) * step]

\* an optional integer: None or a value
None == [none |-> TRUE, v |-> 0]
Some(i) == [none |-> FALSE, v |-> i]

\* slice(start, stop, step).indices(n) followed by range(...): the 0-based
\* positions a slice selects in a sequence of length n
PySlicePositions(n, s) ==
    LET step == IF s.step.none THEN 1 ELSE s.step.v
        neg == step < 0
        clamp(x) == LET y == IF x.v < 0 THEN x.v + n ELSE x.v
                    IN IF y < 0 THEN (IF neg THEN 0 - 1 ELSE 0)
                       ELSE IF y >= n THEN (IF neg THEN n - 1 ELSE n)
                       ELSE y
        start == IF s.start.none THEN (IF neg THEN n - 1 ELSE 0) ELSE clamp(s.start)
        stop == IF s.stop.none THEN (IF neg THEN 0 - 1 ELSE n) ELSE clamp(s.stop)
    IN PyRange(start, stop, step)

\* the slices tried: start and stop None or in -2..2; steps None, 2, -1
SliceEnds == {None} \cup {Some(i) : i \in (0 - 2)..2}

SliceSteps == {None, Some(2), Some(0 - 1)}

Slices == [start : SliceEnds, stop : SliceEnds, step : SliceSteps]

----------------------------------------------------------------------------
(* list.pop(index) on a Python list: list.py line 52 *)

ListPop_OffByOne(args, index) ==
    LET k == IF index < 0 THEN index + Len(args) - 1 ELSE index
    IN IF k < 0 \/ k >= Len(args)
       THEN [ok |-> FALSE, list |-> args]
       ELSE [ok |-> TRUE, list |-> RemoveAt(args, k + 1)]

ListPop(args, index) ==
    LET k == IF index < 0 THEN index + Len(args) ELSE index
    IN IF k < 0 \/ k >= Len(args)
       THEN [ok |-> FALSE, list |-> args]          \* IndexError, nothing removed
       ELSE [ok |-> TRUE, list |-> RemoveAt(args, k + 1)]

----------------------------------------------------------------------------
(* The ModuleList the container extends (torch.nn.ModuleList), as the      *)
(* container calls it.                                                     *)

\* super().append(layer): list.py lines 36 and 46
ModuleListAppend(mods, m) == Append(mods, m)

\* super().pop(0) on a non-empty ModuleList: list.py line 33
ModuleListPopFront(mods) == Tail(mods)

\* super().__getitem__(index) with an integer: list.py line 108
ModuleListGetInt(mods, index) ==
    LET n == Len(mods)
        k == IF index < 0 THEN index + n ELSE index
    IN IF index < 0 - n \/ index >= n
       THEN [ok |-> FALSE, v |-> "none"]            \* IndexError
       ELSE [ok |-> TRUE, v |-> mods[k + 1]]

\* list(self._modules.values())[idx] for a slice: list.py line 108
ModuleListSelect(mods, s) ==
    LET pos == PySlicePositions(Len(mods), s)
    IN [k \in 1..Len(pos) |-> mods[pos[k] + 1]]

----------------------------------------------------------------------------
(* LayerList construction *)

\* an argument of the constructor: a layer, or a Python list of layers
LayerArg(m) == [isList |-> FALSE, layer |-> m, items |-> <<>>]
ListArg(l) == [isList |-> TRUE, layer |-> "none", items |-> l]

\* __pre_init__(*layers): a single list argument is unwrapped; the result is
\* what the base class stores as _args
PreInit(layers) ==
    IF Len(layers) = 1 /\ layers[1].isList
    THEN layers[1].items
    ELSE [k \in 1..Len(layers) |-> layers[k].layer]

RECURSIVE PopUntilEmpty(_)
\* while len(self): super().pop(0)
PopUntilEmpty(mods) ==
    IF Len(mods) = 0 THEN mods ELSE PopUntilEmpty(ModuleListPopFront(mods))

RECURSIVE AppendEach_Prepending(_, _)
AppendEach_Prepending(mods, layers) ==
    IF Len(layers) = 0 THEN mods
    ELSE AppendEach_Prepending(<<Head(layers)>> \o mods, Tail(layers))

RECURSIVE AppendEach(_, _)
\* for idx, layer in enumerate(layers): super().append(layer)
AppendEach(mods, layers) ==
    IF Len(layers) = 0 THEN mods
    ELSE AppendEach(ModuleListAppend(mods, Head(layers)), Tail(layers))

\* __init__(*layers), run on a container whose contents are `mods`
LayerListInit(mods, layers) == AppendEach(PopUntilEmpty(mods), layers)

\* __construct__(): runs __init__ again with the pending tuple
Construct(mods, args) == LayerListInit(mods, args)

\* type(self)(list_of_layers): a new container of class `kind`
NewContainer(kind, layerList) ==
    LET a == PreInit(<<ListArg(layerList)>>)
    IN [kind |-> kind, args |-> a, modules |-> Construct(<<>>, a), built |-> FALSE]

----------------------------------------------------------------------------
(* LayerList operations *)

NoCall == [set |-> FALSE, pos |-> <<>>, kw |-> 0]

NoSlice == [start |-> None, stop |-> None, step |-> None]

\* What the last operation was given, the state it started from and what it
\* returned; prev_* is the same for the operation before it.
\*   popped: args.pop(index) succeeded;  ok: the call returned (no exception)
Last(op, index, slice, module, popped, ok, ret, retKind, retList) ==
    [op |-> op, index |-> index, slice |-> slice, module |-> module,
     pre_args |-> ll_args, pre_modules |-> ll_modules, pre_built |-> ll_built,
     popped |-> popped, ok |-> ok, ret |-> ret, ret_kind |-> retKind, ret_list |-> retList,
     call_args |-> <<>>, call_kw |-> 0, trace |-> <<>>, pre_cfg |-> ll_cfg,
     prev_op |-> ll_last.op, prev_module |-> ll_last.module,
     prev_pre_args |-> ll_last.pre_args, prev_pre_built |-> ll_last.pre_built]

AppendPending_Front(args, module) == <<module>> \o args

\* (*self._args, module): list.py line 42
AppendPending(args, module) == args \o <<module>>

\* append(module): list.py lines 40-48
LAppend(m) ==
    /\ Len(ll_args) < MaxLen
    /\ Len(ll_modules) < MaxLen
    /\ IF ~ll_built
       THEN /\ ll_args' = AppendPending(ll_args, m)
            /\ ll_modules' = Construct(ll_modules, ll_args')
       ELSE /\ ll_modules' = ModuleListAppend(ll_modules, m)
            /\ ll_args' = ll_args
    /\ ll_last' = Last("append", 0, NoSlice, m, FALSE, TRUE, "none", "none", <<>>)
    /\ UNCHANGED <<cbvars, mlpvars, upvars, appvars>> /\ UNCHANGED <<ll_kind, ll_built, ll_cfg>>

\* pop(index): list.py lines 50-56
LPop(index) ==
    LET r == ListPop(ll_args, index)
    IN IF ~r.ok
       THEN /\ ll_last' = Last("pop", index, NoSlice, "none", FALSE, FALSE, "none", "none", <<>>)
            /\ UNCHANGED <<cbvars, mlpvars, upvars, appvars>> /\ UNCHANGED <<ll_kind, ll_args, ll_modules, ll_built, ll_cfg>>
       ELSE /\ ll_args' = r.list
            /\ ll_modules' = Construct(ll_modules, ll_args')
            /\ LET g == ModuleListGetInt(ll_modules', index)       \* return self[index]
               IN ll_last' = Last("pop", index, NoSlice, "none", TRUE, g.ok, g.v, "none", <<>>)
            /\ UNCHANGED <<cbvars, mlpvars, upvars, appvars>> /\ UNCHANGED <<ll_kind, ll_built, ll_cfg>>

\* build(): the container becomes built; its contents stay
LBuild ==
    /\ ~ll_built
    /\ ll_built' = TRUE
    /\ ll_last' = Last("build", 0, NoSlice, "none", FALSE, TRUE, "none", "none", <<>>)
    /\ UNCHANGED <<cbvars, mlpvars, upvars, appvars>> /\ UNCHANGED <<ll_kind, ll_args, ll_modules, ll_cfg>>

\* __iter__(): list.py lines 81-82
LIter ==
    /\ ll_last' = Last("iter", 0, NoSlice, "none", FALSE, TRUE, "none", "none", ll_modules)
    /\ UNCHANGED <<cbvars, mlpvars, upvars, appvars>> /\ UNCHANGED <<ll_kind, ll_args, ll_modules, ll_built, ll_cfg>>

\* __getitem__(index) with an integer: list.py lines 107-108
LGetItemInt(index) ==
    /\ LET g == ModuleListGetInt(ll_modules, index)
       IN ll_last' = Last("getint", index, NoSlice, "none", FALSE, g.ok, g.v, "none", <<>>)
    /\ UNCHANGED <<cbvars, mlpvars, upvars, appvars>> /\ UNCHANGED <<ll_kind, ll_args, ll_modules, ll_built, ll_cfg>>

\* self[slice]: self.__class__(list(self._modules.values())[idx])
GetItemSlice(kind, mods, s) == NewContainer(kind, ModuleListSelect(mods, s))

\* __getitem__(index) with a slice: list.py lines 107-108
LGetItemSlice(s) ==
    /\ LET c == GetItemSlice(ll_kind, ll_modules, s)
       IN ll_last' = Last("getslice", 0, s, "none", FALSE, TRUE, "none", c.kind, c.modules)
    /\ UNCHANGED <<cbvars, mlpvars, upvars, appvars>> /\ UNCHANGED <<ll_kind, ll_args, ll_modules, ll_built, ll_cfg>>

\* every tuple of layers up to the bound
Tuples == UNION {[1..n -> Modules] : n \in 0..MaxLen}

\* the state after LayerList(*layers) / Sequential(*layers)
Constructed(kind, layers) ==
    /\ ll_kind = kind
    /\ ll_args = PreInit(layers)
    /\ ll_modules = Construct(<<>>, ll_args)
    /\ ll_built = FALSE
    /\ ll_cfg = [m \in Modules |-> NoCall]
    /\ ConvUnused /\ MlpUnused /\ UpUnused /\ AppUnused
    /\ ll_last = [op |-> "init", index |-> 0, slice |-> NoSlice, module |-> "none",
                  pre_args |-> <<>>, pre_modules |-> <<>>, pre_built |-> FALSE,
                  popped |-> FALSE, ok |-> TRUE, ret |-> "none", ret_kind |-> "none",
                  ret_list |-> <<>>,
                  call_args |-> <<>>, call_kw |-> 0, trace |-> <<>>,
                  pre_cfg |-> [m \in Modules |-> NoCall],
                  prev_op |-> "none", prev_module |-> "none",
                  prev_pre_args |-> <<>>, prev_pre_built |-> FALSE]

ListInit == \E kind \in Kinds : Constructed(kind, <<>>)

ListNext ==
    \/ \E m \in Modules : LAppend(m)
    \/ \E i \in Ints : LPop(i)
    \/ LBuild
    \/ LIter
    \/ \E i \in Ints : LGetItemInt(i)

SpecList == ListInit /\ [][ListNext]_vars

----------------------------------------------------------------------------
(* Properties of append / pop / iteration (SpecList) *)

\* the 1-based position a Python index names in a sequence of length n
PosOf(n, index) == IF index < 0 THEN index + n + 1 ELSE index + 1

\* t is s with the element at 1-based position k removed
IsRemoval(t, s, k) ==
    /\ Len(t) = Len(s) - 1
    /\ \A j \in 1..Len(t) : t[j] = s[IF j < k THEN j ELSE j + 1]

\* t is s with m added at the end
IsExtension(t, s, m) ==
    /\ Len(t) = Len(s) + 1
    /\ t[Len(t)] = m
    /\ \A j \in 1..Len(s) : t[j] = s[j]

\* C2: on an unbuilt container, append(m) directly followed by pop(-1) leaves
\* the pending tuple as it was before the append, the empty tuple included.
C2_AppendPopRestoresPending ==
    (/\ ll_last.op = "pop" /\ ll_last.index = 0 - 1
     /\ ll_last.prev_op = "append" /\ ~ll_last.prev_pre_built /\ ~ll_last.pre_built)
    => ll_args = ll_last.prev_pre_args

C2_Witness ==
    /\ ll_last.op = "pop" /\ ll_last.index = 0 - 1 /\ ll_last.popped
    /\ ll_last.prev_op = "append" /\ ~ll_last.pre_built
    /\ Len(ll_last.prev_pre_args) = 2
    /\ ll_last.prev_pre_args[1] # ll_last.prev_pre_args[2]
    /\ ll_last.prev_module # ll_last.prev_pre_args[2]

\* C3: while the container is unbuilt, append and pop leave it unbuilt, append(m)
\* puts m at the end of the pending tuple, and the contents that iteration
\* yields are exactly the pending tuple, in order.
C3_UnbuiltContentsArePending ==
    /\ ~ll_built => ll_modules = ll_args
    /\ (ll_last.op = "iter" /\ ~ll_built) => ll_last.ret_list = ll_args
    /\ (ll_last.op \in {"append", "pop"} /\ ~ll_last.pre_built) => ~ll_built
    /\ (ll_last.op = "append" /\ ~ll_last.pre_built)
          => IsExtension(ll_args, ll_last.pre_args, ll_last.module)

C3_Witness ==
    /\ ll_last.op = "iter" /\ ~ll_built /\ ll_last.prev_op = "pop"
    /\ Len(ll_last.ret_list) = 2 /\ ll_last.ret_list[1] # ll_last.ret_list[2]

\* C4: once built, append(m) adds m at the end of the current contents and
\* pop(index) removes exactly the element at position index of the current
\* contents, elements appended after build included.
C4_PostBuildStandardCollection ==
    LET n == Len(ll_last.pre_modules)
    IN /\ (ll_last.op = "append" /\ ll_last.pre_built)
            => IsExtension(ll_modules, ll_last.pre_modules, ll_last.module)
       /\ (ll_last.op = "pop" /\ ll_last.pre_built
             /\ 0 - n <= ll_last.index /\ ll_last.index < n)
            => IsRemoval(ll_modules, ll_last.pre_modules, PosOf(n, ll_last.index))

\* C5: on an unbuilt container whose pending tuple has length n, pop(index)
\* with -n <= index < n removes exactly the element at that position
\* (negative indices count from the end) and keeps the others in order.
C5_PrebuildPopRemovesIndexed ==
    LET n == Len(ll_last.pre_args)
    IN (/\ ll_last.op = "pop" /\ ~ll_last.pre_built
        /\ 0 - n <= ll_last.index /\ ll_last.index < n)
       => /\ ll_last.popped
          /\ IsRemoval(ll_args, ll_last.pre_args, PosOf(n, ll_last.index))

C5_Witness ==
    /\ ll_last.op = "pop" /\ ~ll_last.pre_built /\ ll_last.popped
    /\ ll_last.index = 0 - 2 /\ Len(ll_last.pre_args) = 3
    /\ ll_last.pre_args[2] # ll_last.pre_args[3]

----------------------------------------------------------------------------
(* LayerList.configure: list.py lines 62-79 *)

\* a positional argument of configure: an int, a slice, a list of these, or
\* anything else (a type, a string)
IntArg(i) == [t |-> "int", i |-> i, s |-> NoSlice, items |-> <<>>]
SliceArg(sl) == [t |-> "slice", i |-> 0, s |-> sl, items |-> <<>>]
ListOf(items) == [t |-> "list", i |-> 0, s |-> NoSlice, items |-> items]
OtherArg == [t |-> "other", i |-> 0, s |-> NoSlice, items |-> <<>>]

\* layer.configure(*pos, **kw) on layer m: the layer's configuration now
\* reflects this call, and the call is logged.  st = [cfg, trace, ok].
LayerConfigure(st, m, pos, kw) ==
    [cfg |-> [st.cfg EXCEPT ![m] = [set |-> TRUE, pos |-> pos, kw |-> kw]],
     trace |-> Append(st.trace, [layer |-> m, pos |-> pos, kw |-> kw]),
     ok |-> st.ok]

RECURSIVE ConfigureEach(_, _, _, _)
\* for layer in <layers>: layer.configure(*pos, **kw)
ConfigureEach(st, layers, pos, kw) ==
    IF Len(layers) = 0 THEN st
    ELSE ConfigureEach(LayerConfigure(st, Head(layers), pos, kw), Tail(layers), pos, kw)

ForwardRest_All(args) == args

\* args[1:]
ForwardRest(args) == Tail(args)

RECURSIVE Configure(_, _, _, _, _)
RECURSIVE ConfigureList(_, _, _, _, _, _)

ConfigureList_FirstOnly(kind, mods, st, items, rest, kw) ==
    IF Len(items) = 0 \/ ~st.ok THEN st
    ELSE Configure(kind, mods, st, <<Head(items)>> \o rest, kw)

\* for arg in args[0]: self.configure(arg, *args[1:], **kwargs); an
\* exception raised by one call ends the loop
ConfigureList(kind, mods, st, items, rest, kw) ==
    IF Len(items) = 0 \/ ~st.ok THEN st
    ELSE ConfigureList(kind, mods,
                       Configure(kind, mods, st, <<Head(items)>> \o rest, kw),
                       Tail(items), rest, kw)

\* configure(*args, **kwargs) on a container of class `kind` holding `mods`
Configure(kind, mods, st, args, kw) ==
    IF Len(args) > 0
    THEN IF args[1].t = "int"
         THEN LET g == ModuleListGetInt(mods, args[1].i)
              IN IF g.ok THEN LayerConfigure(st, g.v, ForwardRest(args), kw)
                 ELSE [st EXCEPT !.ok = FALSE]                     \* IndexError
         ELSE IF args[1].t = "slice"
         THEN ConfigureEach(st, GetItemSlice(kind, mods, args[1].s).modules,
                            ForwardRest(args), kw)
         ELSE IF args[1].t = "list"
         THEN ConfigureList(kind, mods, st, args[1].items, ForwardRest(args), kw)
         ELSE ConfigureEach(st, mods, args, kw)
    ELSE ConfigureEach(st, mods, args, kw)

LConfigure(args, kw) ==
    /\ LET r == Configure(ll_kind, ll_modules, [cfg |-> ll_cfg, trace |-> <<>>, ok |-> TRUE],
                          args, kw)
       IN /\ ll_cfg' = r.cfg
          /\ ll_last' = [Last("configure", 0, NoSlice, "none", FALSE, r.ok, "none", "none", <<>>)
                           EXCEPT !.call_args = args, !.call_kw = kw, !.trace = r.trace]
    /\ UNCHANGED <<cbvars, mlpvars, upvars, appvars>> /\ UNCHANGED <<ll_kind, ll_args, ll_modules, ll_built>>

\* the slices and list entries given to configure
CfgSlices ==
    {[start |-> a, stop |-> b, step |-> None] : a \in {None, Some(1)}, b \in {None, Some(0 - 1)}}
        \cup {[start |-> None, stop |-> None, step |-> Some(0 - 1)]}

CfgEntries ==
    {IntArg(0), SliceArg([start |-> Some(1), stop |-> None, step |-> None])}

CfgLists == UNION {[1..n -> CfgEntries] : n \in 0..MaxPath}

\* the first positional argument, when there is one that addresses elements
CfgPaths ==
    {IntArg(i) : i \in Ints} \cup {SliceArg(sl) : sl \in CfgSlices}
        \cup {ListOf(l) : l \in CfgLists}

\* the arguments after it, and the keyword value
CfgCalls == {[rest |-> <<>>, kw |-> 1], [rest |-> <<OtherArg>>, kw |-> 2]}

LConfigureAll ==
    \E c \in CfgCalls : LConfigure(c.rest, c.kw)

LConfigureAt ==
    \E p \in CfgPaths, c \in CfgCalls : LConfigure(<<p>> \o c.rest, c.kw)

CfgInit == \E l \in Tuples : Constructed("LayerList", [k \in 1..Len(l) |-> LayerArg(l[k])])

CfgNext == LConfigureAll \/ LConfigureAt

SpecCfg == CfgInit /\ [][CfgNext]_vars

----------------------------------------------------------------------------
(* Indexing and iteration on a constructed container (SpecIndex) *)

\* LayerList(l1, ..., lk) or LayerList([l1, ..., lk])
IndexInit ==
    \E kind \in Kinds, l \in Tuples, asList \in BOOLEAN :
        Constructed(kind, IF asList THEN <<ListArg(l)>>
                          ELSE [k \in 1..Len(l) |-> LayerArg(l[k])])

IndexNext ==
    \/ LIter
    \/ \E i \in Ints : LGetItemInt(i)
    \/ \E s \in Slices : LGetItemSlice(s)

SpecIndex == IndexInit /\ [][IndexNext]_vars

\* The 0-based positions a slice selects in a sequence of length n, stated as
\* a set: between the clamped start and stop, at multiples of the step.
SliceStep(s) == IF s.step.none THEN 1 ELSE s.step.v

SliceBound(n, x, dflt, lo, hi) ==
    IF x.none THEN dflt
    ELSE LET y == IF x.v < 0 THEN x.v + n ELSE x.v
         IN IF y < lo THEN lo ELSE IF y > hi THEN hi ELSE y

SliceSet(n, s) ==
    IF SliceStep(s) > 0
    THEN LET from == SliceBound(n, s.start, 0, 0, n)
             to == SliceBound(n, s.stop, n, 0, n)
         IN {i \in 0..(n - 1) : i >= from /\ i < to /\ (i - from) % SliceStep(s) = 0}
    ELSE LET from == SliceBound(n, s.start, n - 1, 0 - 1, n - 1)
             to == SliceBound(n, s.stop, 0 - 1, 0 - 1, n - 1)
         IN {i \in 0..(n - 1) : i <= from /\ i > to /\ (from - i) % (0 - SliceStep(s)) = 0}

\* the elements of a set of integers in ascending / descending order
Ascending(S) ==
    CHOOSE f \in [1..Cardinality(S) -> S] : \A i, j \in 1..Cardinality(S) : i < j => f[i] < f[j]

Descending(S) ==
    CHOOSE f \in [1..Cardinality(S) -> S] : \A i, j \in 1..Cardinality(S) : i < j => f[i] > f[j]

\* the elements of s at the 0-based positions pos, in the order of pos
At(s, pos) == [k \in 1..Len(pos) |-> s[pos[k] + 1]]

IterAndIntIndexing ==
    LET n == Len(ll_last.pre_modules)
    IN /\ ll_last.op = "iter" => ll_last.ret_list = ll_last.pre_modules
       /\ (ll_last.op = "getint" /\ 0 - n <= ll_last.index /\ ll_last.index < n)
            => /\ ll_last.ok
               /\ ll_last.ret = ll_last.pre_modules[PosOf(n, ll_last.index)]
       /\ ll_last.op \in {"iter", "getint", "getslice"}
            => /\ ll_modules = ll_last.pre_modules
               /\ ll_args = ll_last.pre_args

\* C8 as stated: iteration yields the elements in order, an integer index
\* returns the element at that position, and a slice returns a new container of
\* the same kind holding the selected elements in their original order, the
\* original container unchanged.
C8_SliceKeepsOriginalOrder ==
    /\ IterAndIntIndexing
    /\ ll_last.op = "getslice"
         => /\ ll_last.ret_kind = ll_kind
            /\ ll_last.ret_list =
                 At(ll_last.pre_modules,
                    Ascending(SliceSet(Len(ll_last.pre_modules), ll_last.slice)))

\* C8 amended: the new container holds the selected elements in the order the
\* slice enumerates them: original order for a positive step, reverse order
\* for a negative step.
C8_SliceInSliceOrder ==
    /\ IterAndIntIndexing
    /\ ll_last.op = "getslice"
         => LET sel == SliceSet(Len(ll_last.pre_modules), ll_last.slice)
            IN /\ ll_last.ret_kind = ll_kind
               /\ ll_last.ret_list =
                    At(ll_last.pre_modules,
                       IF SliceStep(ll_last.slice) > 0 THEN Ascending(sel)
                       ELSE Descending(sel))

C8_Witness ==
    /\ ll_last.op = "getslice" /\ ll_kind = "Sequential" /\ ll_last.ret_kind = "Sequential"
    /\ SliceStep(ll_last.slice) < 0
    /\ Len(ll_last.pre_modules) = 3
    /\ ll_last.ret_list = <<ll_last.pre_modules[3], ll_last.pre_modules[2]>>
    /\ ll_last.pre_modules[3] # ll_last.pre_modules[2]
    /\ ll_modules = ll_last.pre_modules

----------------------------------------------------------------------------
(* Properties of configure (SpecCfg) *)

\* the 0-based positions a slice enumerates, in the slice's order
SliceSel(n, sl) ==
    IF SliceStep(sl) > 0 THEN Ascending(SliceSet(n, sl)) ELSE Descending(SliceSet(n, sl))

\* the layers logged in a trace
Traced(trace) == {trace[k].layer : k \in 1..Len(trace)}

\* the log of calling configure(*pos, **kw) on each of `layers` in turn
CallsOn(layers, pos, kw) ==
    [k \in 1..Len(layers) |-> [layer |-> layers[k], pos |-> pos, kw |-> kw]]

\* cfg after the layers in `hit` received configure(*pos, **kw); the others keep theirs
CfgAfter(cfg, hit, pos, kw) ==
    [m \in Modules |-> IF m \in hit THEN [set |-> TRUE, pos |-> pos, kw |-> kw] ELSE cfg[m]]

\* the layers one int or slice path addresses in mods, in order; <<>> with
\* ok = FALSE for an int out of range
Addressed(mods, a) ==
    LET n == Len(mods)
    IN IF a.t = "int"
       THEN IF 0 - n <= a.i /\ a.i < n
            THEN [ok |-> TRUE, layers |-> <<mods[PosOf(n, a.i)]>>]
            ELSE [ok |-> FALSE, layers |-> <<>>]
       ELSE [ok |-> TRUE, layers |-> At(mods, SliceSel(n, a.s))]

\* C6: configure addresses exactly the named elements: all of them with no
\* index argument, element i with an integer i, the elements of the slice (in
\* the slice's order) with a slice; each receives the remaining positional and
\* keyword arguments unchanged, and the other elements keep their configuration.
C6_ConfigureTargetsAddressed ==
    LET args == ll_last.call_args
        mods == ll_last.pre_modules
        fanout == Len(args) = 0 \/ args[1].t = "other"
        single == Len(args) > 0 /\ args[1].t \in {"int", "slice"}
    IN ll_last.op = "configure" =>
         /\ ll_modules = mods
         /\ fanout =>
               /\ ll_last.ok
               /\ ll_last.trace = CallsOn(mods, args, ll_last.call_kw)
               /\ ll_cfg = CfgAfter(ll_last.pre_cfg, Traced(ll_last.trace), args, ll_last.call_kw)
         /\ single =>
               LET a == Addressed(mods, args[1])
               IN /\ ll_last.ok = a.ok
                  /\ ll_last.trace = CallsOn(a.layers, Tail(args), ll_last.call_kw)
                  /\ ll_cfg = CfgAfter(ll_last.pre_cfg, Traced(ll_last.trace),
                                       Tail(args), ll_last.call_kw)

C6_Witness ==
    /\ ll_last.op = "configure" /\ Len(ll_last.call_args) = 2
    /\ ll_last.call_args[1].t = "slice"
    /\ Len(ll_last.trace) = 2
    /\ \E m \in Modules :
          /\ m \notin Traced(ll_last.trace)
          /\ ll_last.pre_cfg[m].set
          /\ ll_last.pre_cfg[m].kw # ll_last.call_kw
          /\ ll_cfg[m] = ll_last.pre_cfg[m]

RECURSIVE OneAfterAnother(_, _, _, _, _)
\* the effect of configure(p1, *rest, **kw), ..., configure(pk, *rest, **kw) made
\* one after another; a call that raises ends the sequence
OneAfterAnother(st, mods, items, rest, kw) ==
    IF Len(items) = 0 \/ ~st.ok THEN st
    ELSE LET a == Addressed(mods, Head(items))
             next == [cfg |-> CfgAfter(st.cfg, {a.layers[k] : k \in 1..Len(a.layers)}, rest, kw),
                      trace |-> st.trace \o CallsOn(a.layers, rest, kw),
                      ok |-> a.ok]
         IN OneAfterAnother(next, mods, Tail(items), rest, kw)

\* C7: configure([p1, ..., pk], *rest, **kw) has the effect of the calls
\* configure(p1, *rest, **kw), ..., configure(pk, *rest, **kw) made in list
\* order; an empty list changes nothing.
C7_ListIsSequenceOfCalls ==
    LET args == ll_last.call_args
    IN (ll_last.op = "configure" /\ Len(args) > 0 /\ args[1].t = "list") =>
         LET e == OneAfterAnother([cfg |-> ll_last.pre_cfg, trace |-> <<>>, ok |-> TRUE],
                                  ll_last.pre_modules, args[1].items, Tail(args),
                                  ll_last.call_kw)
         IN /\ ll_cfg = e.cfg
            /\ ll_last.trace = e.trace
            /\ ll_last.ok = e.ok
            /\ ll_modules = ll_last.pre_modules
            /\ Len(args[1].items) = 0 => (ll_cfg = ll_last.pre_cfg /\ ll_last.trace = <<>>)

C7_Witness ==
    /\ ll_last.op = "configure" /\ Len(ll_last.call_args) > 0
    /\ ll_last.call_args[1].t = "list"
    /\ Len(ll_last.call_args[1].items) = 2
    /\ ll_last.call_args[1].items[1].t = "slice"
    /\ ll_last.call_args[1].items[2].t = "int"
    /\ ll_last.ok /\ Len(ll_last.trace) = 3
    /\ ll_last.trace[1].layer # ll_last.trace[3].layer

----------------------------------------------------------------------------
(* Conv2dBlock: src/deeplay/blocks/conv/conv2d.py *)

\* in_channels=None: the block starts with a lazy convolution
NoneCh == 0

\* channel counts and strides a block is constructed with
Channels == {1, 2}

\* a stride written as a tuple (h, w), kept apart from the scalar strides
TupleStride(h, w) == 10 * h + w

Strides == {1, 2, TupleStride(1, 1)}

\* largest n given to multi
MaxN == 3

\* most operations applied to one block
MaxOps == 2

NormKinds == {"BatchNorm2d", "GroupNorm", "InstanceNorm2d", "LayerNorm", "Other"}

\* a deferred layer: its target type and the arguments this model follows
\*   inner: for a nested Conv2dBlock, the type of its layer
\*   kernel: kernel_size of a convolution (0: not given)
\*   param / ch: the channel parameter of a normalization and its value
Descr(type) ==
    [type |-> type, inner |-> "none", inc |-> NoneCh, outc |-> NoneCh, stride |-> 0,
     kernel |-> 0, param |-> "none", ch |-> NoneCh]

\* Conv2dBlock.__init__: lines 20-55; `extra` are the further components
\* passed as keywords (name -> descriptor), in keyword order `extraOrder`
NewConv2dBlock(inc, outc, stride, extraOrder, extra) ==
    LET layer == [Descr(IF inc = NoneCh THEN "LazyConv2d" ELSE "Conv2d")
                    EXCEPT !.inc = inc, !.outc = outc, !.stride = stride, !.kernel = 3]
    IN [inc |-> inc, outc |-> outc, stride |-> stride,
        order |-> <<"layer">> \o extraOrder,
        comps |-> [n \in {"layer"} \cup DOMAIN extra |->
                     IF n = "layer" THEN layer ELSE extra[n]],
        blocks |-> <<>>]

NoExtra == [n \in {} |-> Descr("none")]

----------------------------------------------------------------------------
(* BaseBlock: the named ordered block Conv2dBlock extends *)

InOrder(b, name) == \E k \in 1..Len(b.order) : b.order[k] = name

IndexOf(order, name) == CHOOSE k \in 1..Len(order) : order[k] = name

Without(order, name) == SelectSeq(order, LAMBDA x : x # name)

InsertAfter(order, k, name) == SubSeq(order, 1, k) \o <<name>> \o SubSeq(order, k + 1, Len(order))

\* hasattr(block, name)
HasAttr(b, name) == name \in DOMAIN b.comps

WithComp(b, name, d) ==
    [n \in DOMAIN b.comps \cup {name} |-> IF n = name THEN d ELSE b.comps[n]]

\* set(name, value, mode, after): inserts or replaces a named component.
\* The result is [ok, b]; ok = FALSE is a raised error, b unchanged.
BaseSet(b, name, d, mode, after) ==
    LET rest == Without(b.order, name)
        put(o) == [ok |-> TRUE, b |-> [b EXCEPT !.order = o, !.comps = WithComp(b, name, d)]]
        fail == [ok |-> FALSE, b |-> b]
        anchored == after # "none" /\ after # name /\ InOrder(b, after)
    IN CASE mode = "prepend" -> put(<<name>> \o rest)
         [] mode = "append" -> put(rest \o <<name>>)
         [] mode \in {"insert", "insert_after"} ->
                IF anchored THEN put(InsertAfter(rest, IndexOf(rest, after), name)) ELSE fail
         [] mode = "insert_before" ->
                IF anchored THEN put(InsertAfter(rest, IndexOf(rest, after) - 1, name)) ELSE fail
         [] mode = "replace" ->
                IF InOrder(b, name) THEN put(b.order) ELSE fail
         [] OTHER -> fail

\* remove(name, allow_missing): deletes the component and its order entry
BaseRemove(b, name, allowMissing) ==
    IF InOrder(b, name) \/ HasAttr(b, name)
    THEN [ok |-> TRUE,
          b |-> [b EXCEPT !.order = Without(b.order, name),
                          !.comps = [n \in DOMAIN b.comps \ {name} |-> b.comps[n]]]]
    ELSE [ok |-> allowMissing, b |-> b]

\* configure(order=[...]): the block is re-made with this order; components
\* not named in it are no longer attributes of the block
BaseConfigureOrder(b, order) ==
    [b EXCEPT !.order = order,
              !.comps = [n \in {m \in DOMAIN b.comps : \E k \in 1..Len(order) : order[k] = m}
                           |-> b.comps[n]]]

\* configure(in_channels=c) on a Conv2dBlock: __init__ runs again with the new
\* value (lines 30-53)
ConfigureInChannels(b, c) ==
    [b EXCEPT !.inc = c,
              !.comps = IF "layer" \in DOMAIN b.comps
                        THEN [b.comps EXCEPT !["layer"] =
                                [@ EXCEPT !.type = IF c = NoneCh THEN "LazyConv2d" ELSE "Conv2d",
                                          !.inc = c]]
                        ELSE b.comps]

\* multi(n) of the base class: the block's definition is replicated into n
\* sub-blocks held in a Sequential `blocks`, which becomes the whole order
BaseMulti(b, n) ==
    [b EXCEPT !.order = <<"blocks">>,
              !.comps = [m \in {"blocks"} |-> Descr("Sequential")],
              !.blocks = [k \in 1..n |-> NewConv2dBlock(b.inc, b.outc, b.stride, <<>>, NoExtra)]]

\* shortcut(merge, shortcut) of the base class: the current order is wrapped
\* between shortcut_start and shortcut_end (the merge)
BaseShortcut(b, merge, shortcut) ==
    LET b1 == BaseSet(b, "shortcut_start", shortcut, "prepend", "none").b
    IN BaseSet(b1, "shortcut_end", merge, "append", "none").b

\* activated(activation)
BaseActivated(b, activation) ==
    BaseSet(b, "activation", Descr(activation), "append", "none").b

\* set_dropout(p)
BaseSetDropout(b) ==
    BaseSet(b, "dropout", Descr("Dropout"), "append", "none").b

----------------------------------------------------------------------------
(* Conv2dBlock methods *)

\* is there a name of `names` before position idx of the order (order[:idx])
AnyBefore(order, idx, names) == \E k \in 1..(idx - 1) : order[k] \in names

ConfigureNormalization_AlwaysOut(b) ==
    LET type == b.comps["normalization"].type
        param == CASE type = "BatchNorm2d" -> "num_features"
                   [] type = "GroupNorm" -> "num_channels"
                   [] type = "InstanceNorm2d" -> "num_features"
                   [] type = "LayerNorm" -> "normalized_shape"
                   [] OTHER -> "none"
    IN IF param = "none" THEN b
       ELSE [b EXCEPT !.comps["normalization"] = [@ EXCEPT !.param = param, !.ch = b.outc]]

\* _configure_normalization: lines 75-94
ConfigureNormalization(b) ==
    LET idx == IndexOf(b.order, "normalization")
        channels == IF AnyBefore(b.order, idx, {"layer", "blocks"}) THEN b.outc ELSE b.inc
        type == b.comps["normalization"].type
        param == CASE type = "BatchNorm2d" -> "num_features"
                   [] type = "GroupNorm" -> "num_channels"
                   [] type = "InstanceNorm2d" -> "num_features"
                   [] type = "LayerNorm" -> "normalized_shape"
                   [] OTHER -> "none"
    IN IF param = "none" THEN b
       ELSE [b EXCEPT !.comps["normalization"] = [@ EXCEPT !.param = param, !.ch = channels]]

\* normalized(normalization, mode, after): lines 57-73.  [ok, b]
Normalized(b, kind, mode, after) ==
    LET didReplace == mode = "replace" /\ InOrder(b, "normalization")
        r == BaseSet(b, "normalization", Descr(kind), mode, after)
    IN IF ~r.ok THEN r
       ELSE IF didReplace THEN r
       ELSE [ok |-> TRUE, b |-> ConfigureNormalization(r.b)]

MultiRechannel_FromFirst(blocks, outc) ==
    [k \in 1..Len(blocks) |-> ConfigureInChannels(blocks[k], outc)]

\* self["blocks", 1:].configure(in_channels=self.out_channels): line 158
MultiRechannel(blocks, outc) ==
    LET hit == PySlicePositions(Len(blocks), [start |-> Some(1), stop |-> None, step |-> None])
    IN [k \in 1..Len(blocks) |->
          IF \E j \in 1..Len(hit) : hit[j] + 1 = k
          THEN ConfigureInChannels(blocks[k], outc) ELSE blocks[k]]

\* multi(n): lines 156-159
Multi(b, n) ==
    LET b1 == BaseMulti(b, n)
    IN [b1 EXCEPT !.blocks = MultiRechannel(b1.blocks, b1.outc)]

Shortcut_ChannelsOnly(b, how) ==
    LET auto == [Descr("Conv2dBlock") EXCEPT
                   !.inc = b.inc, !.outc = b.outc, !.stride = b.stride, !.kernel = 1,
                   !.inner = IF b.inc = b.outc THEN "Identity"
                             ELSE IF b.inc = NoneCh THEN "LazyConv2d" ELSE "Conv2d"]
        sc == IF how = "auto" THEN auto ELSE Descr("Identity")
    IN BaseShortcut(b, Descr("Add"), sc)

\* shortcut(merge=Add(), shortcut): lines 161-187; how is "auto" or "none"
Shortcut(b, how) ==
    LET auto == [Descr("Conv2dBlock") EXCEPT
                   !.inc = b.inc, !.outc = b.outc, !.stride = b.stride, !.kernel = 1,
                   !.inner = IF b.inc = b.outc /\ (b.stride = 1 \/ b.stride = TupleStride(1, 1))
                             THEN "Identity"
                             ELSE IF b.inc = NoneCh THEN "LazyConv2d" ELSE "Conv2d"]
        sc == IF how = "auto" THEN auto ELSE Descr("Identity")
    IN BaseShortcut(b, Descr("Add"), sc)

Transposed_OrderOnly(b, removeUpsample, removeLayer) ==
    LET b1 == BaseSet(b, "transpose", Descr("ConvTranspose2d"), "prepend", "none").b
        b2 == IF removeUpsample THEN [b1 EXCEPT !.order = Without(b1.order, "upsample")] ELSE b1
    IN [ok |-> TRUE,
        b |-> IF removeLayer THEN [b2 EXCEPT !.order = Without(b2.order, "layer")] ELSE b2]

Transposed_IgnoreFlags(b, removeUpsample, removeLayer) ==
    LET b1 == BaseSet(b, "transpose", Descr("ConvTranspose2d"), "prepend", "none").b
    IN BaseRemove(BaseRemove(b1, "upsample", TRUE).b, "layer", TRUE)

\* transposed(transpose, mode="prepend", remove_upsample, remove_layer): lines
\* 115-130.  [ok, b]; a call that raises leaves the edits made before it.
Transposed(b, removeUpsample, removeLayer) ==
    LET s == BaseSet(b, "transpose", Descr("ConvTranspose2d"), "prepend", "none")
        r1 == IF s.ok /\ removeUpsample THEN BaseRemove(s.b, "upsample", TRUE) ELSE s
    IN IF r1.ok /\ removeLayer THEN BaseRemove(r1.b, "layer", TRUE) ELSE r1

\* pooled(pool, mode="prepend", after=None): lines 96-100.  [ok, b]
Pooled(b, mode, after) ==
    BaseSet(b, "pool", Descr("MaxPool2d"), mode, after)

Upsampled_AlwaysAppend(b, mode, after) ==
    LET upsample == [Descr("ConvTranspose2d") EXCEPT !.inc = b.outc, !.outc = b.outc]
    IN BaseSet(b, "upsample", upsample, "append", after)

\* upsampled(upsample, mode="append", after=None): lines 102-113.  [ok, b]
Upsampled(b, mode, after) ==
    LET upsample == [Descr("ConvTranspose2d") EXCEPT !.inc = b.outc, !.outc = b.outc]
    IN BaseSet(b, "upsample", upsample, mode, after)

\* configure(stride=s) on a Conv2dBlock: __init__ runs again with the new
\* value (lines 33-53)
ConfigureStride(b, s) ==
    [b EXCEPT !.stride = s,
              !.comps = IF "layer" \in DOMAIN b.comps
                        THEN [b.comps EXCEPT !["layer"] = [@ EXCEPT !.stride = s]]
                        ELSE b.comps]

\* lines 142-153: the shortcut branch follows the stride
StridedShortcut(b, s) ==
    IF ~HasAttr(b, "shortcut_start") THEN b
    ELSE IF b.comps["shortcut_start"].type = "Conv2dBlock"
    THEN [b EXCEPT !.comps["shortcut_start"] = [@ EXCEPT !.stride = s, !.inner = "Conv2d"]]
    ELSE [b EXCEPT !.comps["shortcut_start"] =
            [@ EXCEPT !.type = "Conv2d", !.inc = b.inc, !.outc = b.outc, !.stride = s,
                      !.kernel = 1]]

RECURSIVE Strided(_, _, _, _)
\* strided(stride, remove_pool): lines 132-154.  [ok, b].  What self["layer"]
\* does on a block that has no layer is decided outside this file: `lenient`
\* is the empty selection (line 134 does nothing), otherwise the line raises.
Strided(b, s, removePool, lenient) ==
    LET b1 == ConfigureStride(b, s)                                         \* line 133
        b2 == IF HasAttr(b1, "layer")                                       \* line 134
              THEN [b1 EXCEPT !.comps["layer"] = [@ EXCEPT !.type = "Conv2d"]] ELSE b1
    IN IF ~HasAttr(b1, "layer") /\ ~lenient THEN [ok |-> FALSE, b |-> b1]
       ELSE IF HasAttr(b2, "blocks")                                        \* line 135
       THEN IF Len(b2.blocks) = 0 THEN [ok |-> FALSE, b |-> b2]             \* blocks[0]
            ELSE LET sub == Strided(b2.blocks[1], s, removePool, lenient)
                     b3 == [b2 EXCEPT !.blocks[1] = sub.b]
                 IN IF sub.ok THEN [ok |-> TRUE, b |-> StridedShortcut(b3, s)]
                    ELSE [ok |-> FALSE, b |-> b3]
       ELSE IF HasAttr(b2, "layer")                                         \* line 137
       THEN LET b3 == IF removePool THEN BaseRemove(b2, "pool", TRUE).b ELSE b2
            IN [ok |-> TRUE, b |-> StridedShortcut(b3, s)]
       ELSE [ok |-> TRUE, b |-> StridedShortcut(b2, s)]

----------------------------------------------------------------------------
(* The residual style: lines 193-260.  An order string is a sequence of     *)
(* one-character strings.                                                  *)

\* str.lower() on the characters an order is written with
Lower(c) ==
    CASE c = "L" -> "l" [] c = "A" -> "a" [] c = "N" -> "n" [] c = "D" -> "d" [] OTHER -> c

Contains(str, c) == \E k \in 1..Len(str) : str[k] = c

Count(str, c) == Cardinality({k \in 1..Len(str) : str[k] = c})

\* lines 201-203: lower-case, and a '|' added at the end when there is none
NormalOrder(order) ==
    LET o == [k \in 1..Len(order) |-> Lower(order[k])]
    IN IF Contains(o, "|") THEN o ELSE o \o <<"|">>

\* order.index("|"), 1-based
BarIndex(o) == CHOOSE k \in 1..Len(o) : o[k] = "|" /\ \A j \in 1..(k - 1) : o[j] # "|"

\* order[: order.index("|")]
BeforeSkip(o) == SubSeq(o, 1, BarIndex(o) - 1)

\* order[order.index("|") + 1 :]
AfterSkip(o) == SubSeq(o, BarIndex(o) + 1, Len(o))

\* the three assertions, lines 205-217, on the normalised order: "ok", or
\* the assertion that fails
ResidualCheck(o) ==
    IF \E k \in 1..Len(o) : o[k] \notin {"l", "a", "n", "d", "|"} THEN "chars"
    ELSE IF \E k \in 1..Len(AfterSkip(o)) : AfterSkip(o)[k] \notin {"a", "n", "d"} THEN "after_skip"
    ELSE IF \E c \in {"l", "a", "n"} : Count(AfterSkip(o), c) > 1 THEN "count"
    ELSE "ok"

\* lines 222-229
NameOf(c) ==
    CASE c = "l" -> "layer" [] c = "a" -> "activation"
      [] c = "n" -> "normalization" [] c = "d" -> "dropout"

RECURSIVE GroupTokens_CompareLast(_, _, _)
GroupTokens_CompareLast(tokens, blockOrders, cur) ==
    IF Len(tokens) = 0
    THEN IF Len(cur) > 0 THEN Append(blockOrders, cur) ELSE blockOrders
    ELSE LET name == NameOf(Head(tokens))
         IN IF Len(cur) > 0 /\ cur[Len(cur)] = name
            THEN GroupTokens_CompareLast(Tail(tokens), Append(blockOrders, cur), <<name>>)
            ELSE GroupTokens_CompareLast(Tail(tokens), blockOrders, Append(cur, name))

RECURSIVE GroupTokens(_, _, _)
\* the loop of lines 219-238: block_orders and _order after the tokens left
GroupTokens(tokens, blockOrders, cur) ==
    IF Len(tokens) = 0
    THEN IF Len(cur) > 0 THEN Append(blockOrders, cur) ELSE blockOrders
    ELSE LET name == NameOf(Head(tokens))
         IN IF Contains(cur, name)
            THEN GroupTokens(Tail(tokens), Append(blockOrders, cur), <<name>>)
            ELSE GroupTokens(Tail(tokens), blockOrders, Append(cur, name))

BlockOrders(o) == GroupTokens(BeforeSkip(o), <<>>, <<>>)

\* the body of the loop of lines 243-250 for one sub-block
ResidualSubBlock(sb, blockOrder, activation, normalization) ==
    LET b1 == IF Contains(blockOrder, "activation") THEN BaseActivated(sb, activation) ELSE sb
        b2 == IF Contains(blockOrder, "normalization")
              THEN Normalized(b1, normalization, "append", "none").b ELSE b1
        b3 == IF Contains(blockOrder, "dropout") THEN BaseSetDropout(b2) ELSE b2
    IN BaseConfigureOrder(b3, blockOrder)

RECURSIVE ResidualAfterSkip_Reversed(_, _, _, _)
ResidualAfterSkip_Reversed(b, letters, activation, normalization) ==
    IF Len(letters) = 0 THEN b
    ELSE LET c == letters[Len(letters)]
             b1 == CASE c = "a" -> BaseActivated(b, activation)
                     [] c = "n" -> Normalized(b, normalization, "append", "none").b
                     [] c = "d" -> BaseSetDropout(b)
         IN ResidualAfterSkip_Reversed(b1, SubSeq(letters, 1, Len(letters) - 1),
                                       activation, normalization)

RECURSIVE ResidualAfterSkip(_, _, _, _)
\* the loop of lines 252-258
ResidualAfterSkip(b, letters, activation, normalization) ==
    IF Len(letters) = 0 THEN b
    ELSE LET c == Head(letters)
             b1 == CASE c = "a" -> BaseActivated(b, activation)
                     [] c = "n" -> Normalized(b, normalization, "append", "none").b
                     [] c = "d" -> BaseSetDropout(b)
         IN ResidualAfterSkip(b1, Tail(letters), activation, normalization)

\* residual(block, order, activation, normalization, dropout): [ok, err, b]
Residual(b, order, activation, normalization) ==
    LET o == NormalOrder(order)
        check == ResidualCheck(o)
    IN IF check # "ok" THEN [ok |-> FALSE, err |-> "AssertionError", b |-> b]
       ELSE LET orders == BlockOrders(o)
                b1 == Multi(b, Len(orders))
                b2 == Shortcut(b1, "auto")
                b3 == [b2 EXCEPT !.blocks =
                         [i \in 1..Len(b2.blocks) |->
                            ResidualSubBlock(b2.blocks[i], orders[i], activation, normalization)]]
            IN [ok |-> TRUE, err |-> "none",
                b |-> ResidualAfterSkip(b3, AfterSkip(o), activation, normalization)]

\* the parameters of the residual style: lines 194-200
ResidualParams == {"block", "order", "activation", "normalization", "dropout"}

\* can the call block.residual(**kw) be made: the only residual this code
\* defines is the style above, and a call binds only keywords it declares
ResidualAccepts(kwnames) == kwnames \subseteq ResidualParams

----------------------------------------------------------------------------
(* The attention styles: lines 263-379 *)

\* the attributes __init__ sets (lines 30-35) and the components
BlockAttrs(b) ==
    {"in_channels", "out_channels", "kernel_size", "stride", "padding", "pool"}
        \cup DOMAIN b.comps

\* spatial_self_attention: lines 263-290
SpatialSelfAttention(b, toChannelLast, normalization) ==
    LET b1 == [b EXCEPT !.outc = b.inc]                                      \* line 274
        b2 == Shortcut(b1, "auto")                                          \* line 276
    IN IF "layer" \notin BlockAttrs(b2)                                      \* line 280
       THEN [ok |-> FALSE, err |-> "AttributeError", b |-> b2]
       ELSE LET b3 == [b2 EXCEPT !.comps["layer"] =
                         [@ EXCEPT !.type = "MultiheadSelfAttention", !.inc = b2.inc]]
                n == Normalized(b3, normalization, "insert", "shortcut_start")   \* line 286
            IN IF ~n.ok THEN [ok |-> FALSE, err |-> "NameError", b |-> n.b]
               ELSE IF toChannelLast
               THEN LET b4 == BaseSet(n.b, "channel_last", Descr("Permute"), "prepend", "none").b
                    IN [ok |-> TRUE, err |-> "none",
                        b |-> BaseSet(b4, "channel_first", Descr("Permute"), "append", "none").b]
               ELSE [ok |-> TRUE, err |-> "none", b |-> n.b]

\* spatial_cross_attention: lines 293-323.  The call of line 302 passes
\* hidden_channels, merge_after and merge_block; it raises, and lines 304-323
\* are not reached.
SpatialCrossAttention(b, toChannelLast, normalization) ==
    LET b1 == [b EXCEPT !.outc = b.inc]                                      \* line 300
    IN IF ~ResidualAccepts({"hidden_channels", "merge_after", "merge_block"})
       THEN [ok |-> FALSE, err |-> "TypeError", b |-> b1]
       ELSE [ok |-> TRUE, err |-> "none", b |-> b1]

\* spatial_tranformer: lines 326-379.  Line 334 reads block.in_channel, which
\* no line sets; the style raises before its first edit.
SpatialTransformer(b, toChannelLast, normalization) ==
    IF "in_channel" \notin BlockAttrs(b)
    THEN [ok |-> FALSE, err |-> "AttributeError", b |-> b]
    ELSE [ok |-> TRUE, err |-> "none", b |-> b]

----------------------------------------------------------------------------
(* Operations on a Conv2dBlock as steps *)

NoOrder == <<>>

CLast(op, ok, err, n, order, flag) ==
    [op |-> op, pre |-> cb, ok |-> ok, err |-> err, n |-> n, order |-> order, flag |-> flag]

CStep(op, r, n, order, flag) ==
    /\ cb_ops < MaxOps
    /\ cb' = r.b
    /\ cb_ops' = cb_ops + 1
    /\ cb_last' = CLast(op, r.ok, r.err, n, order, flag)
    /\ UNCHANGED <<llvars, mlpvars, upvars, appvars>>

Done(b) == [ok |-> TRUE, err |-> "none", b |-> b]

CMulti(n) == CStep("multi", Done(Multi(cb, n)), n, NoOrder, FALSE)

CShortcut(how) == CStep("shortcut", Done(Shortcut(cb, how)), 0, NoOrder, how = "auto")

CTransposed(removeUpsample, removeLayer) ==
    CStep("transposed", Done(Transposed(cb, removeUpsample, removeLayer).b), 0, NoOrder, removeLayer)

\* block.style("residual", order=order)
CStyleResidual(order) ==
    CStep("residual", Residual(cb, order, "ReLU", "BatchNorm2d"), 0, order, FALSE)

\* block.style("spatial_self_attention", to_channel_last=f)
CStyleSelfAttention(f) ==
    CStep("spatial_self_attention", SpatialSelfAttention(cb, f, "LayerNorm"), 0, NoOrder, f)

\* block.style("spatial_cross_attention", to_channel_last=f)
CStyleCrossAttention(f) ==
    CStep("spatial_cross_attention", SpatialCrossAttention(cb, f, "LayerNorm"), 0, NoOrder, f)

\* block.style("spatial_tranformer", to_channel_last=f)
CStyleTransformer(f) ==
    CStep("spatial_tranformer", SpatialTransformer(cb, f, "LayerNorm"), 0, NoOrder, f)

ListUnused ==
    /\ ll_kind = "LayerList" /\ ll_args = <<>> /\ ll_modules = <<>> /\ ll_built = FALSE
    /\ ll_cfg = Unused /\ ll_last = Unused

\* Conv2dBlock(in_channels, out_channels, stride=stride)
ConvInit ==
    /\ \E inc \in Channels \cup {NoneCh}, outc \in Channels, stride \in Strides :
          cb = NewConv2dBlock(inc, outc, stride, <<>>, NoExtra)
    /\ cb_ops = 0
    /\ cb_last = [op |-> "init", pre |-> cb, ok |-> TRUE, err |-> "none", n |-> 0,
                  order |-> NoOrder, flag |-> FALSE]
    /\ ListUnused /\ MlpUnused /\ UpUnused /\ AppUnused

\* order strings given to the residual style in sequences of operations
ResidualSamples ==
    {<<"l", "a", "n", "l", "a", "n", "|">>,
     <<"l", "a", "n", "l", "a", "n", "|", "a", "n">>,
     <<"L", "A", "N">>,
     <<"n", "l", "|", "d", "d">>,
     <<"l", "a", "|", "l">>,
     <<"l", "x">>,
     <<"l", "|", "a", "a">>}

ConvNext ==
    \/ \E n \in 0..MaxN : CMulti(n)
    \/ \E how \in {"auto", "none"} : CShortcut(how)
    \/ \E ru, rl \in BOOLEAN : CTransposed(ru, rl)
    \/ \E o \in ResidualSamples : CStyleResidual(o)
    \/ \E f \in BOOLEAN : CStyleSelfAttention(f)
    \/ \E f \in BOOLEAN : CStyleCrossAttention(f)
    \/ \E f \in BOOLEAN : CStyleTransformer(f)

SpecConv == ConvInit /\ [][ConvNext]_vars

\* the residual style applied to a freshly constructed block, for every order
\* string up to the bound
MaxOrder == 4

OrderChars == {"l", "a", "n", "d", "|", "x"}

OrderStrings == UNION {[1..n -> OrderChars] : n \in 0..MaxOrder} \cup ResidualSamples

ResidualNext == \E o \in OrderStrings : cb_ops = 0 /\ CStyleResidual(o)

SpecResidual == ConvInit /\ [][ResidualNext]_vars

----------------------------------------------------------------------------
(* Structural edits of a Conv2dBlock, in sequences *)

\* most edits applied to one block
MaxEdits == 2

NoArgs ==
    [name |-> "none", mode |-> "none", after |-> "none", kind |-> "none",
     n |-> 0, order |-> NoOrder, flagA |-> FALSE, flagB |-> FALSE]

\* one call on the block: the block takes the call's result, and the call,
\* its arguments, the block before it and the call before it are recorded
EditStep(bound, op, r, args) ==
    /\ cb_ops < bound
    /\ cb' = r.b
    /\ cb_ops' = cb_ops + 1
    /\ cb_last' = [op |-> op, pre |-> cb, ok |-> r.ok, args |-> args,
                   prev |-> [op |-> cb_last.op, args |-> cb_last.args, pre |-> cb_last.pre]]
    /\ UNCHANGED <<llvars, mlpvars, upvars, appvars>>

EStep(op, r, args) == EditStep(MaxEdits, op, r, args)

EPooled(mode) ==
    EStep("pooled", Pooled(cb, mode, "none"), [NoArgs EXCEPT !.name = "pool", !.mode = mode])

EUpsampled(mode) ==
    EStep("upsampled", Upsampled(cb, mode, "none"),
          [NoArgs EXCEPT !.name = "upsample", !.mode = mode])

ETransposed(removeUpsample, removeLayer) ==
    EStep("transposed", Transposed(cb, removeUpsample, removeLayer),
          [NoArgs EXCEPT !.name = "transpose", !.mode = "prepend",
                         !.flagA = removeUpsample, !.flagB = removeLayer])

ENormalized(kind, mode, after) ==
    EStep("normalized", Normalized(cb, kind, mode, after),
          [NoArgs EXCEPT !.name = "normalization", !.kind = kind, !.mode = mode,
                         !.after = after])

EMulti(n) == EStep("multi", Done(Multi(cb, n)), [NoArgs EXCEPT !.n = n])

EShortcut(how) == EStep("shortcut", Done(Shortcut(cb, how)), [NoArgs EXCEPT !.mode = how])

EStrided(s, removePool, lenient) ==
    EStep("strided", Strided(cb, s, removePool, lenient),
          [NoArgs EXCEPT !.n = s, !.flagA = removePool])

\* block.remove(name, allow_missing=allowMissing)
ERemove(name, allowMissing) ==
    EStep("remove", BaseRemove(cb, name, allowMissing),
          [NoArgs EXCEPT !.name = name, !.flagA = allowMissing])

EStyleResidual(order) ==
    EStep("residual", Residual(cb, order, "ReLU", "BatchNorm2d"), [NoArgs EXCEPT !.order = order])

\* components a block is constructed with besides its layer:
\* Conv2dBlock(c_in, c_out) and Conv2dBlock(c_in, c_out, upsample=..., activation=...)
EditExtras == {<<>>, <<"upsample", "activation">>}

ExtraComps(extraOrder) ==
    [n \in {extraOrder[k] : k \in 1..Len(extraOrder)} |->
        IF n = "upsample" THEN Descr("ConvTranspose2d") ELSE Descr("ReLU")]

EditInit ==
    /\ \E inc \in {NoneCh, 1}, extraOrder \in EditExtras :
          cb = NewConv2dBlock(inc, 2, 1, extraOrder, ExtraComps(extraOrder))
    /\ cb_ops = 0
    /\ cb_last = [op |-> "init", pre |-> cb, ok |-> TRUE, args |-> NoArgs,
                  prev |-> [op |-> "none", args |-> NoArgs, pre |-> cb]]
    /\ ListUnused /\ MlpUnused /\ UpUnused /\ AppUnused

\* the calls of normalized that are made: every kind appended and prepended,
\* and the other modes with one known and one unknown kind
NormCalls ==
    {<<k, m, "none">> : k \in NormKinds, m \in {"append", "prepend"}}
        \cup {<<k, "replace", "none">> : k \in {"GroupNorm", "Other"}}
        \cup {<<k, "insert", "layer">> : k \in {"LayerNorm", "Other"}}

EditResidualSamples ==
    {<<"l", "a", "n", "l", "a", "n", "|", "a", "n">>,
     <<"a", "n", "|">>,
     <<"l", "|", "d", "d">>}

EditNext ==
    \/ \E mode \in {"prepend", "append"} : EPooled(mode)
    \/ \E mode \in {"prepend", "append"} : EUpsampled(mode)
    \/ \E ru, rl \in BOOLEAN : ETransposed(ru, rl)
    \/ \E c \in NormCalls : ENormalized(c[1], c[2], c[3])
    \/ \E n \in {1, 2} : EMulti(n)
    \/ \E how \in {"auto", "none"} : EShortcut(how)
    \/ \E rp, lenient \in BOOLEAN : EStrided(2, rp, lenient)
    \/ \E name \in {"layer", "upsample", "pool"}, am \in BOOLEAN : ERemove(name, am)
    \/ \E o \in EditResidualSamples : EStyleResidual(o)

SpecEdit == EditInit /\ [][EditNext]_vars

\* strided after multi, pooled and shortcut: longer sequences of fewer calls
MaxStrideOps == 3

SMulti(n) == EditStep(MaxStrideOps, "multi", Done(Multi(cb, n)), [NoArgs EXCEPT !.n = n])

SPooled(mode) ==
    EditStep(MaxStrideOps, "pooled", Pooled(cb, mode, "none"),
             [NoArgs EXCEPT !.name = "pool", !.mode = mode])

SShortcut(how) ==
    EditStep(MaxStrideOps, "shortcut", Done(Shortcut(cb, how)), [NoArgs EXCEPT !.mode = how])

SStrided(s, removePool, lenient) ==
    EditStep(MaxStrideOps, "strided", Strided(cb, s, removePool, lenient),
             [NoArgs EXCEPT !.n = s, !.flagA = removePool])

StridedInit ==
    /\ \E inc \in {NoneCh, 1} : cb = NewConv2dBlock(inc, 2, 1, <<>>, NoExtra)
    /\ cb_ops = 0
    /\ cb_last = [op |-> "init", pre |-> cb, ok |-> TRUE, args |-> NoArgs,
                  prev |-> [op |-> "none", args |-> NoArgs, pre |-> cb]]
    /\ ListUnused /\ MlpUnused /\ UpUnused /\ AppUnused

StridedNext ==
    \/ \E n \in {0, 2} : SMulti(n)
    \/ \E mode \in {"prepend", "append"} : SPooled(mode)
    \/ \E how \in {"auto", "none"} : SShortcut(how)
    \/ \E s \in {2, TupleStride(2, 2)}, rp, lenient \in BOOLEAN : SStrided(s, rp, lenient)

SpecStrided == StridedInit /\ [][StridedNext]_vars

----------------------------------------------------------------------------
(* upsampled and the descriptor it is given: conv2d.py lines 102-113.       *)
(* Descriptors are objects here: a heap maps an identity to a descriptor,   *)
(* and a block refers to its upsample component by identity.                *)

\* most upsampled calls followed
MaxClones == 3

\* the default of the parameter `upsample`, made once when the method is defined
DefaultUpsample == 1

\* a descriptor the caller made and passes in
UserUpsample == 2

DescrIds == 1..(2 + MaxClones)

NoDescr == [type |-> "free"]

UpsampleDescr == [Descr("ConvTranspose2d") EXCEPT !.kernel = 2, !.stride = 2]

\* new(): an independent copy, under an identity not in use
LayerNew(heap, id) ==
    LET free == CHOOSE f \in DescrIds : heap[f] = NoDescr /\ \A g \in DescrIds : g < f => heap[g] # NoDescr
    IN [heap |-> [heap EXCEPT ![free] = heap[id]], id |-> free]

UpsampledOn_NoClone(u, blk, arg) ==
    LET outc == u.blocks[blk].outc
        heap == [u.heap EXCEPT ![arg] = [@ EXCEPT !.inc = outc, !.outc = outc]]
    IN [heap |-> heap, blocks |-> [u.blocks EXCEPT ![blk].upsample = arg]]

\* upsampled(upsample) on block blk, upsample being the object `arg`
UpsampledOn(u, blk, arg) ==
    LET outc == u.blocks[blk].outc
        n == LayerNew(u.heap, arg)                                              \* line 108
        heap == [n.heap EXCEPT ![n.id] = [@ EXCEPT !.inc = outc, !.outc = outc]]  \* lines 109-111
    IN [heap |-> heap, blocks |-> [u.blocks EXCEPT ![blk].upsample = n.id]]      \* line 112

UUpsampled(blk, arg) ==
    /\ \E f \in DescrIds : up.heap[f] = NoDescr
    /\ up' = UpsampledOn(up, blk, arg)
    /\ up_last' = [op |-> "upsampled", blk |-> blk, arg |-> arg, pre |-> up]
    /\ UNCHANGED <<llvars, cbvars, mlpvars, appvars>>

\* two blocks, Conv2dBlock(c, c1) and Conv2dBlock(c, c2), none upsampled yet
UpInit ==
    /\ \E c1, c2 \in Channels :
          up = [heap |-> [i \in DescrIds |->
                            IF i \in {DefaultUpsample, UserUpsample} THEN UpsampleDescr
                            ELSE NoDescr],
                blocks |-> <<[outc |-> c1, upsample |-> 0], [outc |-> c2, upsample |-> 0]>>]
    /\ up_last = [op |-> "init", blk |-> 0, arg |-> 0, pre |-> up]
    /\ ListUnused /\ ConvUnused /\ MlpUnused /\ AppUnused

\* upsampled() with the default, with the caller's descriptor, or with the
\* upsample component of a block
UpNext ==
    \E blk \in 1..2, arg \in {i \in DescrIds : up.heap[i] # NoDescr} : UUpsampled(blk, arg)

SpecUpsample == UpInit /\ [][UpNext]_vars

----------------------------------------------------------------------------
(* MultiLayerPerceptron defaults: src/deeplay/components/mlp.py *)

\* longest hidden_dims list given to configure
MaxDims == 2

\* entries of a configuration store
Unset == [kind |-> "unset"]

Lit(v) == [kind |-> "lit", v |-> v]

\* Ref(path, transform)
Ref(path, fn) == [kind |-> "ref", path |-> path, fn |-> fn]

Transform_Len(fn, s) ==
    CASE fn = "len_plus_one" -> [ok |-> TRUE, v |-> Len(s)]
      [] fn = "last" -> IF Len(s) = 0 THEN [ok |-> FALSE, v |-> 0]
                        ELSE [ok |-> TRUE, v |-> s[Len(s)]]

\* the transforms of the references: lambda s: len(s) + 1 (line 59) and
\* lambda s: s[-1] (line 71)
Transform(fn, s) ==
    CASE fn = "len_plus_one" -> [ok |-> TRUE, v |-> Len(s) + 1]
      [] fn = "last" -> IF Len(s) = 0 THEN [ok |-> FALSE, v |-> 0]
                        ELSE [ok |-> TRUE, v |-> s[Len(s)]]

MlpPaths == {"hidden_dims", "depth", "out_layer.in_features"}

\* MultiLayerPerceptron.defaults(): lines 54-75
MlpDefaults ==
    [p \in MlpPaths |->
        CASE p = "hidden_dims" -> Unset
          [] p = "depth" -> Ref("hidden_dims", "len_plus_one")
          [] p = "out_layer.in_features" -> Ref("hidden_dims", "last")]

MlpClasses ==
    {"MultiLayerPerceptron", "MLPTiny", "MLPSmall", "MLPMedium", "MLPLarge", "MLPMassive"}

\* defaults() of the subclasses: lines 136-192
ClassDefaults(class) ==
    CASE class = "MultiLayerPerceptron" -> MlpDefaults
      [] class = "MLPTiny" -> [MlpDefaults EXCEPT !["hidden_dims"] = Lit(<<16, 256>>)]
      [] class = "MLPSmall" -> [MlpDefaults EXCEPT !["hidden_dims"] = Lit(<<100, 200>>)]
      [] class = "MLPMedium" -> [MlpDefaults EXCEPT !["hidden_dims"] = Lit(<<500, 700, 200>>)]
      [] class = "MLPLarge" ->
            [MlpDefaults EXCEPT !["hidden_dims"] = Lit(<<2500, 2000, 1500, 1000, 500>>)]
      [] class = "MLPMassive" ->
            [MlpDefaults EXCEPT !["hidden_dims"] = Lit(<<512, 1024, 1024, 1024, 1024, 1024>>)]

\* resolving a path of the store: a literal is itself, a reference is its
\* transform applied to the value now at the path it points to; [ok, v]
Resolve(store, path) ==
    LET e == store[path]
    IN CASE e.kind = "lit" -> [ok |-> TRUE, v |-> e.v]
         [] e.kind = "unset" -> [ok |-> FALSE, v |-> 0]
         [] e.kind = "ref" ->
               IF store[e.path].kind = "lit" THEN Transform(e.fn, store[e.path].v)
               ELSE [ok |-> FALSE, v |-> 0]

DimValues == {100, 200}

DimLists == UNION {[1..n -> DimValues] : n \in 0..MaxDims}

MlpLast(op, path, ok, v) == [op |-> op, path |-> path, ok |-> ok, v |-> v, pre |-> mlp.store]

\* a later configure of a path overrides the earlier entry
MConfigureHiddenDims(dims) ==
    /\ mlp' = [mlp EXCEPT !.store["hidden_dims"] = Lit(dims)]
    /\ mlp_last' = MlpLast("configure", "hidden_dims", TRUE, dims)
    /\ UNCHANGED <<llvars, cbvars, upvars, appvars>>

MConfigureDepth(d) ==
    /\ mlp' = [mlp EXCEPT !.store["depth"] = Lit(d)]
    /\ mlp_last' = MlpLast("configure", "depth", TRUE, d)
    /\ UNCHANGED <<llvars, cbvars, upvars, appvars>>

MResolve(path) ==
    /\ LET r == Resolve(mlp.store, path)
       IN mlp_last' = MlpLast("resolve", path, r.ok, r.v)
    /\ UNCHANGED mlp
    /\ UNCHANGED <<llvars, cbvars, upvars, appvars>>

\* in_features=None: the first layer is lazy
NoFeatures == 0

MlpBlocks_AllFromInput(inFeatures, hiddenDims) ==
    [i \in 1..Len(hiddenDims) |->
        IF inFeatures = NoFeatures
        THEN [type |-> "LazyLinear", inf |-> NoFeatures, outf |-> hiddenDims[i]]
        ELSE [type |-> "Linear", inf |-> inFeatures, outf |-> hiddenDims[i]]]

\* the loop of __init__, lines 97-118: one block per entry of hidden_dims
MlpBlocks(inFeatures, hiddenDims) ==
    [i \in 1..Len(hiddenDims) |->
        LET in == IF i = 1 THEN inFeatures ELSE hiddenDims[i - 1]              \* line 99
        IN IF in = NoFeatures
           THEN [type |-> "LazyLinear", inf |-> NoFeatures, outf |-> hiddenDims[i]]
           ELSE [type |-> "Linear", inf |-> in, outf |-> hiddenDims[i]]]

\* __init__(in_features, hidden_dims, out_features): lines 77-125, with the
\* hidden_dims in the store; out_layer takes its in_features from the
\* reference of line 71 and its out_features from out_features (line 72)
MlpConstruct(store, inFeatures, outFeatures) ==
    LET hd == Resolve(store, "hidden_dims")
        oin == Resolve(store, "out_layer.in_features")
        none == [ok |-> FALSE, blocks |-> <<>>, out_layer |-> [type |-> "none", inf |-> 0, outf |-> 0]]
    IN IF ~hd.ok \/ ~oin.ok THEN none
       ELSE [ok |-> TRUE, blocks |-> MlpBlocks(inFeatures, hd.v),
             out_layer |-> [type |-> "Linear", inf |-> oin.v, outf |-> outFeatures]]

MConstruct(inFeatures, outFeatures) ==
    /\ LET r == MlpConstruct(mlp.store, inFeatures, outFeatures)
       IN mlp_last' = MlpLast("construct", "none", r.ok,
                              [built |-> r, in_features |-> inFeatures,
                               out_features |-> outFeatures])
    /\ UNCHANGED mlp
    /\ UNCHANGED <<llvars, cbvars, upvars, appvars>>

MlpInit ==
    /\ \E class \in MlpClasses : mlp = [class |-> class, store |-> ClassDefaults(class)]
    /\ mlp_last = [op |-> "init", path |-> "none", ok |-> TRUE, v |-> 0, pre |-> mlp.store]
    /\ ListUnused /\ ConvUnused /\ UpUnused /\ AppUnused

MlpNext ==
    \/ \E dims \in DimLists : MConfigureHiddenDims(dims)
    \/ \E d \in {1, 4} : MConfigureDepth(d)
    \/ \E path \in {"depth", "out_layer.in_features"} : MResolve(path)
    \/ \E inFeatures \in {NoFeatures, 3} : MConstruct(inFeatures, 10)

SpecMlp == MlpInit /\ [][MlpNext]_vars

----------------------------------------------------------------------------
(* Application: src/deeplay/applications/application.py *)

\* a child is a name and the object registered under it; objects are told
\* apart by identity, 0 being None
NoObject == 0

LossObject == 1

OptimizerObject == 2

TrainMetrics == 3

ValMetrics == 4

TestMetrics == 5

OtherModule == 6

OtherOptimizer == 7

\* isinstance(child, Optimizer)
IsOptimizer(id) == id \in {OptimizerObject, OtherOptimizer}

Child(name, id) == [name |-> name, id |-> id]

\* __init__(loss, optimizer): lines 31-59, the children in the order they
\* are assigned
AppChildren(withLoss, withOptimizer) ==
    (IF withLoss THEN <<Child("loss", LossObject)>> ELSE <<>>)
        \o (IF withOptimizer THEN <<Child("optimizer", OptimizerObject)>> ELSE <<>>)
        \o <<Child("train_metrics", TrainMetrics), Child("val_metrics", ValMetrics),
             Child("test_metrics", TestMetrics)>>

NewApplication(withLoss, withOptimizer) ==
    [children |-> AppChildren(withLoss, withOptimizer),
     has_key |-> FALSE, key |-> "none", has_size |-> FALSE, size |-> 0]

\* self.<name> = object, as torch.nn.Module registers it: an existing name
\* keeps its place, a new name goes last, None under a new name is no child
SetChild(children, name, id) ==
    IF \E k \in 1..Len(children) : children[k].name = name
    THEN [k \in 1..Len(children) |->
            IF children[k].name = name THEN Child(name, id) ELSE children[k]]
    ELSE IF id = NoObject THEN children
    ELSE Append(children, Child(name, id))

\* torch.nn.Module.named_children: the children in order, None left out and
\* an object registered under two names given once
ModuleNamedChildren(children) ==
    LET keep == {k \in 1..Len(children) :
                    /\ children[k].id # NoObject
                    /\ \A j \in 1..(k - 1) : children[j].id # children[k].id}
        F[k \in 0..Len(children)] ==
            IF k = 0 THEN <<>>
            ELSE IF k \in keep THEN Append(F[k - 1], children[k]) ELSE F[k - 1]
    IN F[Len(children)]

NamedChildren_OptimizersFirst(children) ==
    LET all == ModuleNamedChildren(children)
    IN SelectSeq(all, LAMBDA c : IsOptimizer(c.id))
         \o SelectSeq(all, LAMBDA c : ~IsOptimizer(c.id))

\* named_children: lines 219-233
NamedChildren(children) ==
    LET all == ModuleNamedChildren(children)
        notOptimizers == SelectSeq(all, LAMBDA c : ~IsOptimizer(c.id))
        optimizers == SelectSeq(all, LAMBDA c : IsOptimizer(c.id))
    IN notOptimizers \o optimizers

NoBatch == [dict |-> FALSE, items |-> <<>>]

AppLast(op, batch, r) ==
    [op |-> op, pre |-> app, batch |-> batch, ok |-> r.ok, err |-> r.err,
     out_batch |-> r.batch, ret_batch |-> r.ret_batch, ret_y |-> r.ret_y,
     children |-> r.children, passed |-> r.passed, batch_size |-> r.batch_size,
     first_dict_key |-> r.first_dict_key, first_full_key |-> r.first_full_key]

NoResult ==
    [ok |-> TRUE, err |-> "none", batch |-> NoBatch, ret_batch |-> NoBatch, ret_y |-> {},
     children |-> <<>>, passed |-> 0, batch_size |-> 0,
     first_dict_key |-> "unseen", first_full_key |-> "unseen"]

\* a result that carries on what is remembered about the batches seen
Carry == [NoResult EXCEPT !.first_dict_key = app_last.first_dict_key,
                          !.first_full_key = app_last.first_full_key]

ASetChild(name, id) ==
    /\ app' = [app EXCEPT !.children = SetChild(app.children, name, id)]
    /\ app_last' = [AppLast("set_child", NoBatch, Carry) EXCEPT !.children = <<Child(name, id)>>]
    /\ UNCHANGED <<llvars, cbvars, mlpvars, upvars>>

ANamedChildren ==
    /\ app_last' = AppLast("named_children", NoBatch,
                           [Carry EXCEPT !.children = NamedChildren(app.children)])
    /\ UNCHANGED app
    /\ UNCHANGED <<llvars, cbvars, mlpvars, upvars>>

ChildrenInit ==
    /\ \E withLoss, withOptimizer \in BOOLEAN : app = NewApplication(withLoss, withOptimizer)
    /\ app_last = AppLast("init", NoBatch, NoResult)
    /\ ListUnused /\ ConvUnused /\ MlpUnused /\ UpUnused

ChildrenNext ==
    \/ \E name \in {"model", "optimizer", "head"},
          id \in {NoObject, LossObject, OtherModule, OtherOptimizer} : ASetChild(name, id)
    \/ ANamedChildren

SpecChildren == ChildrenInit /\ [][ChildrenNext]_vars

\* largest index in a tensor of batch indices
MaxIndex == 1

\* tensors, by the values they hold; the empty tensor among them
Tensors == {{}} \cup {{0, k} : k \in 0..MaxIndex}

\* line 262
Alias == <<"batch", "batch_index", "batch_indices">>

BatchKeys == {"y", "batch", "batch_index", "batch_indices"}

\* dict-like batches, and one batch that is not dict-like
DictBatches ==
    {[dict |-> TRUE, items |-> f] :
        f \in {g \in UNION {[K -> Tensors] : K \in SUBSET BatchKeys} :
                  "y" \in DOMAIN g => g["y"] = {0}}}

Batches == DictBatches \cup {NoBatch}

RECURSIVE InferKey_LastAlias(_, _)
InferKey_LastAlias(alias, items) ==
    IF Len(alias) = 0 THEN "none"
    ELSE IF alias[Len(alias)] \in DOMAIN items THEN alias[Len(alias)]
    ELSE InferKey_LastAlias(SubSeq(alias, 1, Len(alias) - 1), items)

RECURSIVE InferKey(_, _)
\* next((key for key in alias if key in batch), None): line 263
InferKey(alias, items) ==
    IF Len(alias) = 0 THEN "none"
    ELSE IF Head(alias) \in DOMAIN items THEN Head(alias)
    ELSE InferKey(Tail(alias), items)

\* torch.max(t).item()
TorchMax(t) == CHOOSE x \in t : \A y \in t : y <= x

\* _infer_batch_size_from_batch_indices: lines 260-277.  [ok, err, a]
InferBatchSize(a, items) ==
    LET key == InferKey(Alias, items)
        a1 == IF ~a.has_key /\ key # "none"
              THEN [a EXCEPT !.has_key = TRUE, !.key = key] ELSE a             \* line 265
    IN IF ~a.has_key /\ key = "none" THEN [ok |-> FALSE, err |-> "ValueError", a |-> a]
       ELSE IF a1.key \notin DOMAIN items THEN [ok |-> FALSE, err |-> "KeyError", a |-> a1]
       ELSE IF items[a1.key] = {} THEN [ok |-> FALSE, err |-> "RuntimeError", a |-> a1]
       ELSE [ok |-> TRUE, err |-> "none",
             a |-> [a1 EXCEPT !.has_size = TRUE, !.size = TorchMax(items[a1.key]) + 1]]

\* dict.pop(key): the dict without the key
Popped(items, key) == [k \in DOMAIN items \ {key} |-> items[k]]

\* _configure_batch: lines 248-258.  `batch` in the result is the batch
\* object after the call, ret_batch and ret_y what is returned
ConfigureBatch(a, batch) ==
    IF ~batch.dict
    THEN [ok |-> TRUE, err |-> "none", a |-> a, batch |-> batch, ret_batch |-> batch, ret_y |-> {}]
    ELSE IF "y" \notin DOMAIN batch.items
    THEN [ok |-> FALSE, err |-> "AssertionError", a |-> a, batch |-> batch,
          ret_batch |-> NoBatch, ret_y |-> {}]
    ELSE LET r == InferBatchSize(a, batch.items)                                \* line 254
         IN IF ~r.ok
            THEN [ok |-> FALSE, err |-> r.err, a |-> r.a, batch |-> batch,
                  ret_batch |-> NoBatch, ret_y |-> {}]
            ELSE LET popped == [batch EXCEPT !.items = Popped(batch.items, "y")]  \* line 255
                 IN [ok |-> TRUE, err |-> "none", a |-> r.a, batch |-> popped,
                     ret_batch |-> popped, ret_y |-> batch.items["y"]]

\* the key of highest priority a batch holds ("nokey": none of them)
PriorityKey(items) ==
    IF \A k \in 1..Len(Alias) : Alias[k] \notin DOMAIN items THEN "nokey"
    ELSE Alias[CHOOSE k \in 1..Len(Alias) :
                 /\ Alias[k] \in DOMAIN items
                 /\ \A j \in 1..(k - 1) : Alias[j] \notin DOMAIN items]

AConfigureBatch(batch) ==
    LET r == ConfigureBatch(app, batch)
        firstDict == IF app_last.first_dict_key = "unseen" /\ batch.dict
                     THEN PriorityKey(batch.items) ELSE app_last.first_dict_key
        firstFull == IF /\ app_last.first_full_key = "unseen" /\ batch.dict
                        /\ "y" \in DOMAIN batch.items /\ PriorityKey(batch.items) # "nokey"
                     THEN PriorityKey(batch.items) ELSE app_last.first_full_key
    IN /\ app' = r.a
       /\ app_last' = AppLast("configure_batch", batch,
                              [NoResult EXCEPT !.ok = r.ok, !.err = r.err, !.batch = r.batch,
                                               !.ret_batch = r.ret_batch, !.ret_y = r.ret_y,
                                               !.first_dict_key = firstDict,
                                               !.first_full_key = firstFull])
       /\ UNCHANGED <<llvars, cbvars, mlpvars, upvars>>

\* log(name, value, **kwargs): lines 279-283; passed is the batch_size the
\* caller gives, 0 when the caller gives none.  The batch_size handed on.
LogBatchSize(a, passed) ==
    IF passed = 0 /\ a.has_size THEN a.size ELSE passed

ALog(passed) ==
    /\ app_last' = AppLast("log", NoBatch,
                           [Carry EXCEPT !.passed = passed,
                                         !.batch_size = LogBatchSize(app, passed)])
    /\ UNCHANGED app
    /\ UNCHANGED <<llvars, cbvars, mlpvars, upvars>>

BatchInit ==
    /\ app = NewApplication(FALSE, FALSE)
    /\ app_last = AppLast("init", NoBatch, NoResult)
    /\ ListUnused /\ ConvUnused /\ MlpUnused /\ UpUnused

BatchNext ==
    \/ \E batch \in Batches : AConfigureBatch(batch)
    \/ \E passed \in {0, 7} : ALog(passed)

SpecBatch == BatchInit /\ [][BatchNext]_vars

----------------------------------------------------------------------------
(* Properties of Conv2dBlock and its styles *)

StyleOps ==
    {"residual", "spatial_self_attention", "spatial_cross_attention", "spatial_tranformer"}

\* C1: a style application that fails leaves the block identical to its
\* pre-call state (order, components, in_channels / out_channels): no failing
\* application leaves a partial mutation behind.
C1_StyleAllOrNothing ==
    (cb_last.op \in StyleOps /\ ~cb_last.ok) => cb = cb_last.pre

\* C9: multi(n), n >= 1, on a block with in_channels = C_in and out_channels =
\* C_out yields n sub-blocks; sub-block 0 takes C_in, every later sub-block takes
\* the previous sub-block's output dimension, and all put out C_out.
C9_MultiChainsChannels ==
    (cb_last.op = "multi" /\ cb_last.n >= 1) =>
        /\ Len(cb.blocks) = cb_last.n
        /\ cb.blocks[1].inc = cb_last.pre.inc
        /\ \A i \in 2..Len(cb.blocks) : cb.blocks[i].inc = cb.blocks[i - 1].outc
        /\ \A i \in 1..Len(cb.blocks) :
              /\ cb.blocks[i].outc = cb_last.pre.outc
              /\ cb.blocks[i].comps["layer"].inc = cb.blocks[i].inc
              /\ cb.blocks[i].comps["layer"].outc = cb.blocks[i].outc

C9_Witness ==
    /\ cb_last.op = "multi" /\ cb_last.n = 3 /\ Len(cb.blocks) = 3
    /\ cb_last.pre.inc # NoneCh /\ cb_last.pre.inc # cb_last.pre.outc
    /\ cb.blocks[1].inc = cb_last.pre.inc
    /\ cb.blocks[3].inc = cb_last.pre.outc

RECURSIVE Flatten(_)
Flatten(groups) == IF Len(groups) = 0 THEN <<>> ELSE Head(groups) \o Flatten(Tail(groups))

NoRepeat(group) == \A i, j \in 1..Len(group) : i # j => group[i] # group[j]

\* C10: for a valid order string the residual style cuts the tokens before
\* '|' , left to right, into consecutive groups, a new group starting exactly
\* when the next token's component already occurs in the current group; there
\* is one sub-block per group and sub-block i's order is group i.  For
\* "lanlan|an": two sub-blocks, each [layer, activation, normalization].
C10_ResidualGroupsTokens ==
    (cb_last.op = "residual" /\ cb_last.ok) =>
        LET o == NormalOrder(cb_last.order)
            tokens == [k \in 1..Len(BeforeSkip(o)) |-> NameOf(BeforeSkip(o)[k])]
            groups == [i \in 1..Len(cb.blocks) |-> cb.blocks[i].order]
        IN /\ Flatten(groups) = tokens
           /\ \A i \in 1..Len(groups) : Len(groups[i]) > 0 /\ NoRepeat(groups[i])
           /\ \A i \in 1..(Len(groups) - 1) : Contains(groups[i], groups[i + 1][1])
           /\ cb_last.order = <<"l", "a", "n", "l", "a", "n", "|", "a", "n">>
                => groups = <<(<<"layer", "activation", "normalization">>),
                              (<<"layer", "activation", "normalization">>)>>

C10_Witness ==
    /\ cb_last.op = "residual" /\ cb_last.ok
    /\ cb_last.order = <<"l", "a", "n", "l", "a", "n", "|", "a", "n">>
    /\ Len(cb.blocks) = 2
    /\ cb.blocks[2].order = <<"layer", "activation", "normalization">>

\* the part of a top-level order that follows the merge
AfterMerge(order) ==
    SubSeq(order, IndexOf(order, "shortcut_end") + 1, Len(order))

\* the components the tokens after '|' name, as written
AfterSkipNames(order) ==
    LET after == AfterSkip(NormalOrder(order))
    IN [k \in 1..Len(after) |-> NameOf(after[k])]

\* C11: after the residual style is applied the top-level order is the
\* shortcut start, the sub-blocks and the merge, followed by the components
\* named by the tokens after '|' in the order they were written (activation
\* then normalization for "lanlan|an"); nothing follows the merge when no
\* token follows '|'.
C11_ResidualTopLevelOrder ==
    (cb_last.op = "residual" /\ cb_last.ok) =>
        LET names == AfterSkipNames(cb_last.order)
        IN /\ Len(cb.order) >= 3
           /\ SubSeq(cb.order, 1, 3) = <<"shortcut_start", "blocks", "shortcut_end">>
           /\ NoRepeat(cb.order)
           /\ {AfterMerge(cb.order)[k] : k \in 1..Len(AfterMerge(cb.order))}
                 = {names[k] : k \in 1..Len(names)}
           /\ NoRepeat(names) => AfterMerge(cb.order) = names
           /\ Len(names) = 0 => cb.order = <<"shortcut_start", "blocks", "shortcut_end">>
           /\ cb_last.order = <<"l", "a", "n", "l", "a", "n", "|", "a", "n">>
                => cb.order = <<"shortcut_start", "blocks", "shortcut_end",
                                "activation", "normalization">>

C11_Witness ==
    /\ cb_last.op = "residual" /\ cb_last.ok
    /\ cb_last.order = <<"l", "a", "n", "l", "a", "n", "|", "a", "n">>
    /\ cb.order = <<"shortcut_start", "blocks", "shortcut_end", "activation", "normalization">>

\* C12: the residual style rejects every order string in which a structural
\* token (l, a, n or d) occurs more than once after '|', and such a string
\* leads to no edit of the block.
C12_RepeatedAfterSkipRejected ==
    (/\ cb_last.op = "residual"
     /\ \E c \in {"l", "a", "n", "d"} : Count(AfterSkip(NormalOrder(cb_last.order)), c) > 1)
        => (~cb_last.ok /\ cb = cb_last.pre)

\* is the order string one with an unrecognised character, or with 'l' or a
\* second '|' after the first '|'
InvalidOrder(order) ==
    LET o == NormalOrder(order)
    IN \/ \E k \in 1..Len(o) : o[k] \notin {"l", "a", "n", "d", "|"}
       \/ \E k \in 1..Len(AfterSkip(o)) : AfterSkip(o)[k] \in {"l", "|"}

\* C13: the residual style applied with an order string that has an
\* unrecognised character, or 'l' or a second '|' after the first '|', fails
\* with a ValueError, raised before multi, shortcut or any other mutation.
C13_InvalidOrderRaisesValueError ==
    (cb_last.op = "residual" /\ InvalidOrder(cb_last.order))
        => (~cb_last.ok /\ cb_last.err = "ValueError" /\ cb = cb_last.pre)

\* C19: pop(index) returns the element that was at position index before
\* the call, for every valid index, the default -1 and a container of one
\* element included.
C19_PopReturnsRemoved ==
    LET n == Len(ll_last.pre_args)
    IN (/\ ll_last.op = "pop" /\ ~ll_last.pre_built
        /\ 0 - n <= ll_last.index /\ ll_last.index < n)
       => /\ ll_last.ok
          /\ ll_last.ret = ll_last.pre_args[PosOf(n, ll_last.index)]

Names(order) == {order[k] : k \in 1..Len(order)}

\* every name of the order has a component, every component a name, no name twice
WellFormed(b) == Names(b.order) = DOMAIN b.comps /\ NoRepeat(b.order)

KnownNormKinds == {"BatchNorm2d", "GroupNorm", "InstanceNorm2d", "LayerNorm"}

\* C17: normalized called with a normalization kind outside BatchNorm2d,
\* GroupNorm, InstanceNorm2d and LayerNorm fails explicitly; it does not
\* return with the normalization's channel parameter left unconfigured.
C17_UnknownNormKindFails ==
    (cb_last.op = "normalized" /\ cb_last.args.kind \notin KnownNormKinds) => ~cb_last.ok

\* C18: transposed() never fails for an absent 'upsample' or 'layer'; with
\* the default flags the order afterwards contains 'transpose' and neither
\* 'upsample' nor 'layer'; with remove_upsample=False (remove_layer=False)
\* the upsample (layer) component and its order entry are as before.
C18_TransposedRemoves ==
    cb_last.op = "transposed" =>
        LET kept(name) ==
                /\ InOrder(cb, name) = InOrder(cb_last.pre, name)
                /\ HasAttr(cb, name) = HasAttr(cb_last.pre, name)
                /\ HasAttr(cb, name) => cb.comps[name] = cb_last.pre.comps[name]
        IN /\ cb_last.ok
           /\ InOrder(cb, "transpose") /\ cb.order[1] = "transpose"
           /\ cb_last.args.flagA => ~InOrder(cb, "upsample") /\ ~HasAttr(cb, "upsample")
           /\ cb_last.args.flagB => ~InOrder(cb, "layer") /\ ~HasAttr(cb, "layer")
           /\ ~cb_last.args.flagA => kept("upsample")
           /\ ~cb_last.args.flagB => kept("layer")

C18_Witness ==
    /\ cb_last.op = "transposed" /\ cb_last.ok
    /\ cb_last.args.flagA /\ cb_last.args.flagB
    /\ ~InOrder(cb_last.pre, "upsample") /\ InOrder(cb_last.pre, "layer")
    /\ cb_last.prev.op = "pooled"
    /\ cb.order = <<"transpose", "pool">>

C16_DepthIsLenPlusOne ==
    /\ \A class \in MlpClasses :
          /\ ClassDefaults(class)["depth"].kind = "ref"
          /\ ClassDefaults(class)["depth"].path = "hidden_dims"
    /\ (/\ mlp_last.op = "resolve" /\ mlp_last.path = "depth"
        /\ mlp.store["depth"].kind = "ref" /\ mlp.store["hidden_dims"].kind = "lit")
       => /\ mlp_last.ok
          /\ mlp_last.v = Len(mlp.store["hidden_dims"].v) + 1
          /\ mlp.store["hidden_dims"].v = <<100, 200>> => mlp_last.v = 3

C16_Witness ==
    /\ mlp.class = "MLPSmall" /\ mlp.store = ClassDefaults("MLPSmall")
    /\ mlp_last.op = "resolve" /\ mlp_last.path = "depth" /\ mlp_last.ok
    /\ mlp_last.v = 3

\* C21: after strided(stride, remove_pool=True) no 'pool' remains in the
\* block's own order, whether the block holds a 'layer' or replicated
\* 'blocks'; with remove_pool=False the 'pool' entry is as before.  In both
\* cases the stride is on the primary path (the layer, or sub-block 0 only)
\* and on the shortcut branch when there is one.
C21_StridedRemovesPool ==
    (cb_last.op = "strided" /\ cb_last.ok) =>
        /\ cb_last.args.flagA => ~InOrder(cb, "pool")
        /\ ~cb_last.args.flagA => (InOrder(cb, "pool") = InOrder(cb_last.pre, "pool"))
        /\ HasAttr(cb, "layer") /\ ~HasAttr(cb, "blocks")
              => cb.comps["layer"].stride = cb_last.args.n
        /\ HasAttr(cb, "blocks") =>
              /\ cb.blocks[1].comps["layer"].stride = cb_last.args.n
              /\ \A i \in 2..Len(cb.blocks) : cb.blocks[i] = cb_last.pre.blocks[i]
        /\ HasAttr(cb, "shortcut_start") => cb.comps["shortcut_start"].stride = cb_last.args.n

\* C22: for shortcut(shortcut='auto') the shortcut branch's layer is an
\* identity exactly when in_channels = out_channels and the stride is 1 or
\* (1, 1); otherwise the branch is a kernel-size-1 convolution block from
\* in_channels to out_channels with the block's stride.  shortcut=None gives
\* an identity branch.
C22_AutoShortcutBranch ==
    cb_last.op = "shortcut" =>
        LET sc == cb.comps["shortcut_start"]
            pre == cb_last.pre
        IN /\ cb_last.flag =>
                /\ sc.type = "Conv2dBlock"
                /\ sc.inner = "Identity"
                      <=> (pre.inc = pre.outc /\ pre.stride \in {1, TupleStride(1, 1)})
                /\ sc.inner # "Identity" =>
                      /\ sc.inner \in {"Conv2d", "LazyConv2d"}
                      /\ sc.kernel = 1 /\ sc.inc = pre.inc /\ sc.outc = pre.outc
                      /\ sc.stride = pre.stride
           /\ ~cb_last.flag => sc.type = "Identity"

C22_Witness ==
    /\ cb_last.op = "shortcut" /\ cb_last.flag
    /\ cb_last.pre.inc = cb_last.pre.outc /\ cb_last.pre.stride = 2
    /\ cb.comps["shortcut_start"].inner = "Conv2d"
    /\ cb.comps["shortcut_start"].kernel = 1

\* C23: upsampled(upsample) never changes the descriptor it is given, the
\* shared default included: it configures an independent copy with
\* in_channels = out_channels = the block's out_channels, so after any
\* sequence of upsampled() calls on blocks with different out_channels each
\* block's 'upsample' component carries its own block's out_channels.
C23_UpsampledConfiguresClone ==
    /\ up.heap[DefaultUpsample] = UpsampleDescr
    /\ up.heap[UserUpsample] = UpsampleDescr
    /\ \A blk \in 1..Len(up.blocks) :
          up.blocks[blk].upsample # 0 =>
              /\ up.blocks[blk].upsample \notin {DefaultUpsample, UserUpsample}
              /\ up.heap[up.blocks[blk].upsample].inc = up.blocks[blk].outc
              /\ up.heap[up.blocks[blk].upsample].outc = up.blocks[blk].outc
    /\ up_last.op = "upsampled" =>
          /\ up_last.pre.heap[up.blocks[up_last.blk].upsample] = NoDescr
          /\ \A i \in DescrIds : up_last.pre.heap[i] # NoDescr => up.heap[i] = up_last.pre.heap[i]

C23_Witness ==
    /\ up_last.op = "upsampled" /\ up_last.arg = DefaultUpsample
    /\ up.blocks[1].outc # up.blocks[2].outc
    /\ up.blocks[1].upsample # 0 /\ up.blocks[2].upsample # 0
    /\ up.heap[up.blocks[1].upsample].outc = up.blocks[1].outc
    /\ up.heap[up.blocks[2].upsample].outc = up.blocks[2].outc
    /\ up_last.pre.blocks[up_last.blk].upsample = 0
    /\ up_last.pre.heap[up_last.pre.blocks[3 - up_last.blk].upsample] # NoDescr

C25_OptimizersLast ==
    app_last.op = "named_children" =>
        LET c == app.children
            ret == app_last.children
            kids == {k \in 1..Len(c) :
                       c[k].id # NoObject /\ \A j \in 1..(k - 1) : c[j].id # c[k].id}
            pos(k) == CHOOSE i \in 1..Len(ret) : ret[i] = c[k]
        IN /\ Len(ret) = Cardinality(kids)
           /\ \A k \in kids : Cardinality({i \in 1..Len(ret) : ret[i] = c[k]}) = 1
           /\ \A i, j \in 1..Len(ret) :
                 (IsOptimizer(ret[i].id) /\ ~IsOptimizer(ret[j].id)) => j < i
           /\ \A k, l \in kids :
                 (k < l /\ IsOptimizer(c[k].id) = IsOptimizer(c[l].id)) => pos(k) < pos(l)

C25_Witness ==
    /\ app_last.op = "named_children"
    /\ Len(app.children) = 5 /\ app.children[1].name = "optimizer"
    /\ app.children[5].name = "model" /\ app.children[5].id = OtherOptimizer
    /\ app_last.children[1].name = "train_metrics"
    /\ app_last.children[4].name = "optimizer"
    /\ app_last.children[5].name = "model"

\* what every call of _configure_batch keeps to: a batch that is not
\* dict-like comes back unchanged, a failing call leaves the batch as it
\* was, and a call that returns gives (batch without 'y', y)
ConfigureBatchFrame ==
    LET b == app_last.batch
    IN /\ ~b.dict => /\ app_last.ok
                     /\ app_last.ret_batch = b /\ app_last.out_batch = b
       /\ (b.dict /\ ~app_last.ok) => app_last.out_batch = b
       /\ (b.dict /\ "y" \notin DOMAIN b.items) => ~app_last.ok
       /\ (b.dict /\ app_last.ok) =>
             /\ "y" \in DOMAIN b.items
             /\ DOMAIN app_last.ret_batch.items = DOMAIN b.items \ {"y"}
             /\ \A k \in DOMAIN app_last.ret_batch.items :
                   app_last.ret_batch.items[k] = b.items[k]
             /\ app_last.ret_y = b.items["y"]

NoAliasKey(items) == \A k \in 1..Len(Alias) : Alias[k] \notin DOMAIN items

\* C26 as stated: _configure_batch on a dict-like batch returns (batch
\* without 'y', y) or fails leaving the batch unmodified; a batch without
\* 'y' is rejected, a batch without any batch-index key raises ValueError
\* with 'y' still in the batch; a batch that is not dict-like is returned
\* unchanged.
C26_MissingKeyIsValueError ==
    app_last.op = "configure_batch" =>
        /\ ConfigureBatchFrame
        /\ (/\ app_last.batch.dict /\ "y" \in DOMAIN app_last.batch.items
            /\ NoAliasKey(app_last.batch.items))
           => (~app_last.ok /\ app_last.err = "ValueError"
               /\ "y" \in DOMAIN app_last.out_batch.items)

\* what _configure_batch does with a batch that holds 'y' and no batch-index
\* key: ValueError only while no batch-index key has been chosen; once a key
\* is chosen the check of lines 261-270 is skipped and the lookup of line 274
\* fails (KeyError).  In both cases 'y' is still in the batch.
ConfigureBatchAllOrNothing ==
    app_last.op = "configure_batch" =>
        /\ ConfigureBatchFrame
        /\ (/\ app_last.batch.dict /\ "y" \in DOMAIN app_last.batch.items
            /\ NoAliasKey(app_last.batch.items))
           => /\ ~app_last.ok
              /\ app_last.err = (IF app_last.pre.has_key THEN "KeyError" ELSE "ValueError")
              /\ "y" \in DOMAIN app_last.out_batch.items

\* what holds of the batch size and of log whichever batch chose the key:
\* a chosen key never changes, after a dict-like batch is processed the
\* batch size is the largest index under the key plus one, and log hands on
\* that size as batch_size only when the caller passed none
BatchSizeAndLog ==
    /\ app_last.pre.has_key => (app.has_key /\ app.key = app_last.pre.key)
    /\ (app_last.op = "configure_batch" /\ app_last.batch.dict /\ app_last.ok) =>
          /\ app.has_key /\ app.has_size
          /\ \E x \in app_last.batch.items[app.key] :
                /\ app.size = x + 1
                /\ \A y \in app_last.batch.items[app.key] : y <= x
    /\ app_last.op = "log" =>
          /\ app_last.passed # 0 => app_last.batch_size = app_last.passed
          /\ (app_last.passed = 0 /\ app.has_size) => app_last.batch_size = app.size
          /\ (app_last.passed = 0 /\ ~app.has_size) => app_last.batch_size = 0

\* C27 as stated: the batch-index key is chosen on the first dict-like
\* batch (the first present of 'batch', 'batch_index', 'batch_indices') and
\* never changes; after each processed dict-like batch the batch size is the
\* largest index under that key plus one; log attaches it as batch_size only
\* when the caller passed none.
C27_KeyFromFirstDictBatch ==
    /\ BatchSizeAndLog
    /\ app_last.first_dict_key # "unseen"
          => (app.has_key /\ app.key = app_last.first_dict_key)

\* C27, amended: the key is chosen on the first dict-like batch that holds
\* 'y' and at least one of the three keys (a dict-like batch without 'y' or
\* without any of them is refused and chooses nothing); the rest as stated.
C27_KeyFromFirstAcceptedBatch ==
    /\ BatchSizeAndLog
    /\ app.has_key <=> app_last.first_full_key # "unseen"
    /\ app.has_key => app.key = app_last.first_full_key

C27_Witness ==
    /\ app_last.op = "log" /\ app_last.passed = 0 /\ app_last.batch_size = 2
    /\ app.has_key /\ app.key = "batch_index" /\ app.size = 2
    /\ app_last.first_dict_key = "batch" /\ app_last.first_full_key = "batch_index"

====
